---- MODULE Spec2Model ----
(***************************************************************************)
(* BV-Time-Logger: the reconciliation engine.                              *)
(*                                                                         *)
(* Hours are integers (one unit = one hour); every ratio test of the       *)
(* source (hours / estimate > 2.0, > 2.5, > 1.5) is cross-multiplied, which *)
(* is exact on these values.  Python None for an optional number is the    *)
(* value None below.  The work-item store and the calendar provider are    *)
(* external: each call to them either answers from the store's state or    *)
(* raises, and other parties may change the store between two calls.       *)
(***************************************************************************)
EXTENDS Integers, Sequences, FiniteSets, TLC

\* ------------------------------------------------------------------ bounds
MaxRuns == 2
MaxDisturbances == 1
MaxCalls == 2
MaxBatch == 2
MaxLog == 101
MaxMeetings == 2
MaxMentions == 2
MaxTime == 3
MaxEntries == 2
MaxPages == 3
MaxRequests == 4

\* --------------------------------------------------------------- constants
None == -99

Ids == {1, 2}

\* the order in which the store lists its work items
IdSeq == <<1, 2>>

Strategies == {"override", "add", "skip", "fail"}

max_variance_threshold == 2

min_similarity == 6

RECURSIVE SumSeq(_)
SumSeq(s) == IF s = <<>> THEN 0 ELSE Head(s) + SumSeq(Tail(s))

RECURSIVE SelectFirst(_, _)
\* index of the first TRUE of a boolean sequence at or after position i, 0 when none
SelectFirst(bs, i) ==
    IF i > Len(bs) THEN 0
    ELSE IF bs[i] THEN i
    ELSE SelectFirst(bs, i + 1)

\* ------------------------------------------------------------ the store (C)
\* get_scheduling_fields: missing values default to 0, so the model's records
\* always carry the three numbers it needs.
get_scheduling_fields(wi) ==
    [original_estimate |-> wi.original_estimate,
     completed_work    |-> wi.completed_work]

\* validate_permissions(work_item_id): the store's answer for this id
validate_permissions(st, id) == st[id].perm

\* the store applying a PATCH of the completed-work field
update_completed_work_store(st, id, hours) ==
    [st EXCEPT ![id].completed_work = hours]

\* the WIQL of _get_work_items: state NOT IN ('Removed', 'Closed')
query_work_items(st) ==
    LET pick(i) == st[i].state \notin {"Removed", "Closed"}
    IN  SelectSeq(IdSeq, pick)

get_work_items_batch(st, ids) ==
    [k \in 1..Len(ids) |->
        [id |-> ids[k],
         original_estimate |-> st[ids[k]].original_estimate,
         completed_work |-> st[ids[k]].completed_work,
         state |-> st[ids[k]].state,
         assigned_to |-> st[ids[k]].assigned_to]]

\* ------------------------------------------------- Conflict Resolver (G)
DetectErrs == {"none", "read", "perm"}

\* the overbudget test with the bound 2.5 included
overbudget_inclusive(proposed_hours, original_estimate) ==
    original_estimate > 0 /\ 2 * proposed_hours >= 5 * original_estimate

\* detect_conflicts, the overbudget test: variance_ratio > 2.5
overbudget(proposed_hours, original_estimate) ==
    original_estimate > 0 /\ 2 * proposed_hours > 5 * original_estimate

\* ConflictResolver.detect_conflicts; err names the store call that raises
detect_conflicts(st, id, proposed_hours, last_known_hours, err) ==
    IF err = "read"
    THEN [work_item_id |-> id, has_conflicts |-> FALSE, conflicts |-> <<>>,
          current_hours |-> None, proposed_hours |-> proposed_hours,
          last_known_hours |-> last_known_hours, can_proceed |-> FALSE,
          error |-> TRUE]
    ELSE
    LET scheduling == get_scheduling_fields(st[id])
        current_hours == scheduling.completed_work
        original_estimate == scheduling.original_estimate
        c1 == IF last_known_hours # None /\ current_hours # last_known_hours
              THEN <<"manual_update">>
              ELSE IF current_hours > 0 /\ last_known_hours = None
                   THEN <<"value_mismatch">>
                   ELSE <<>>
        c2 == IF overbudget(proposed_hours, original_estimate)
              THEN <<"overbudget">> ELSE <<>>
        locked == st[id].state \in {"Removed", "Deleted"}
        c3 == IF locked THEN <<"work_item_locked">> ELSE <<>>
        denied == err # "perm" /\ ~validate_permissions(st, id)
        c4 == IF denied THEN <<"permission_denied">> ELSE <<>>
        conflicts == c1 \o c2 \o c3 \o c4
    IN  [work_item_id |-> id,
         has_conflicts |-> conflicts # <<>>,
         conflicts |-> conflicts,
         current_hours |-> current_hours,
         proposed_hours |-> proposed_hours,
         last_known_hours |-> last_known_hours,
         can_proceed |-> ~(locked \/ denied \/ err = "perm"),
         error |-> (err = "perm")]

\* ConflictResolver._log_resolution
LogResolution(conflict_info, resolution) ==
    [work_item_id |-> conflict_info.work_item_id,
     conflicts |-> conflict_info.conflicts,
     strategy |-> resolution.strategy,
     action_taken |-> resolution.action_taken,
     resolved |-> resolution.resolved,
     current_hours |-> conflict_info.current_hours,
     proposed_hours |-> conflict_info.proposed_hours,
     final_value |-> resolution.final_value]

\* the strategy passed is used as it is, given or not
chosen_strategy_given(strategy, default_strategy) == strategy

\* resolve_conflict: strategy = strategy or self.default_strategy
chosen_strategy(strategy, default_strategy) ==
    IF strategy = "None" THEN default_strategy ELSE strategy

\* ConflictResolver.resolve_conflict; strategy "None" selects the default.
\* logged tells whether _log_resolution was reached.
resolve_conflict(conflict_info, strategy, default_strategy) ==
    LET s == chosen_strategy(strategy, default_strategy)
        base == [work_item_id |-> conflict_info.work_item_id,
                 strategy |-> s, resolved |-> FALSE, action_taken |-> "None",
                 final_value |-> None, conflicts_resolved |-> <<>>,
                 logged |-> FALSE, error |-> FALSE]
        current_hours == conflict_info.current_hours
        proposed_hours == conflict_info.proposed_hours
    IN  IF ~conflict_info.has_conflicts
        THEN [base EXCEPT !.resolved = TRUE, !.action_taken = "no_conflicts",
                          !.final_value = proposed_hours]
        ELSE IF ~conflict_info.can_proceed
        THEN [base EXCEPT !.action_taken = "blocked"]
        ELSE IF s = "add" /\ current_hours = None
        THEN [base EXCEPT !.error = TRUE]   \* None + number raises, caught
        ELSE LET r == CASE s = "override" ->
                             [base EXCEPT !.final_value = proposed_hours,
                                          !.action_taken = "override",
                                          !.resolved = TRUE]
                        [] s = "add" ->
                             [base EXCEPT !.final_value = current_hours + proposed_hours,
                                          !.action_taken = "add",
                                          !.resolved = TRUE]
                        [] s = "skip" ->
                             [base EXCEPT !.final_value = current_hours,
                                          !.action_taken = "skip",
                                          !.resolved = TRUE]
                        [] OTHER ->
                             [base EXCEPT !.action_taken = "fail"]
             IN  [r EXCEPT !.conflicts_resolved = conflict_info.conflicts,
                           !.logged = TRUE]

\* --------------------------------------------------- Work-Item Writer (H)
WriteErrs == {"none", "validate_read", "perm", "current_read", "patch"}

\* the estimate test with the threshold itself rejected
exceeds_inclusive(completed_hours, original_estimate) ==
    original_estimate > 0
    /\ completed_hours >= max_variance_threshold * original_estimate

\* validate_update, the estimate test: variance > self.max_variance_threshold
exceeds(completed_hours, original_estimate) ==
    original_estimate > 0
    /\ completed_hours > max_variance_threshold * original_estimate

\* validate_update without the test against the estimate
validate_update_any_hours(st, id, completed_hours, err) ==
    IF completed_hours < 0
    THEN [valid |-> FALSE, errors |-> <<"negative">>, warnings |-> <<>>]
    ELSE IF completed_hours > 1000
    THEN [valid |-> FALSE, errors |-> <<"limit">>, warnings |-> <<>>]
    ELSE IF err = "validate_read"
    THEN [valid |-> FALSE, errors |-> <<"validation_error">>, warnings |-> <<>>]
    ELSE
    LET w1 == IF st[id].state \in {"Removed", "Closed"} THEN <<"state">> ELSE <<>>
        e2 == IF err = "perm" THEN <<"validation_error">>
              ELSE IF ~validate_permissions(st, id) THEN <<"permissions">>
              ELSE <<>>
    IN  [valid |-> (e2 = <<>>), errors |-> e2, warnings |-> w1]

\* WorkItemUpdater.validate_update; err names the store call that raises
validate_update(st, id, completed_hours, err) ==
    IF completed_hours < 0
    THEN [valid |-> FALSE, errors |-> <<"negative">>, warnings |-> <<>>]
    ELSE IF completed_hours > 1000
    THEN [valid |-> FALSE, errors |-> <<"limit">>, warnings |-> <<>>]
    ELSE IF err = "validate_read"
    THEN [valid |-> FALSE, errors |-> <<"validation_error">>, warnings |-> <<>>]
    ELSE
    LET w1 == IF st[id].state \in {"Removed", "Closed"} THEN <<"state">> ELSE <<>>
        original_estimate == get_scheduling_fields(st[id]).original_estimate
        over == exceeds(completed_hours, original_estimate)
        e1 == IF over THEN <<"exceeds">> ELSE <<>>
        w2 == IF original_estimate > 0
              THEN IF ~over /\ 2 * completed_hours > 3 * original_estimate
                   THEN <<"high_variance">> ELSE <<>>
              ELSE <<"no_estimate">>
        e2 == IF err = "perm" THEN <<"validation_error">>
              ELSE IF ~validate_permissions(st, id) THEN <<"permissions">>
              ELSE <<>>
    IN  [valid |-> (e1 \o e2 = <<>>), errors |-> e1 \o e2, warnings |-> w1 \o w2]

\* WorkItemUpdater.create_audit_log
create_audit_log(dry_run, id, update_result) ==
    [work_item_id |-> id,
     previous_value |-> update_result.previous_value,
     new_value |-> update_result.new_value,
     success |-> update_result.success,
     updated |-> update_result.updated,
     dry_run |-> dry_run,
     errors |-> update_result.validation_errors]

\* the value held is never taken for the hours asked
no_change_never(previous_value, completed_hours) == FALSE

\* update_completed_work, "check if update is needed":
\* result['previous_value'] == completed_hours
no_change_needed(previous_value, completed_hours) ==
    previous_value = completed_hours

\* WorkItemUpdater.update_completed_work.  Returns the result record, the
\* store after the call, the PATCH requests sent and the audit entries added.
update_completed_work(st, dry_run, id, completed_hours, force, err) ==
    LET base == [work_item_id |-> id, completed_hours |-> completed_hours,
                 success |-> FALSE, updated |-> FALSE,
                 validation_errors |-> <<>>, warnings |-> <<>>,
                 previous_value |-> None, new_value |-> None,
                 dry_run |-> FALSE]
        out(r, s, p, a) == [result |-> r, store |-> s, patches |-> p, audit |-> a]
        v == validate_update(st, id, completed_hours, err)
        r1 == IF force THEN base ELSE [base EXCEPT !.warnings = v.warnings]
        previous_value == get_scheduling_fields(st[id]).completed_work
        r2 == [r1 EXCEPT !.previous_value = previous_value]
        done == [r2 EXCEPT !.success = TRUE, !.updated = TRUE,
                           !.new_value = completed_hours]
    IN  IF ~force /\ ~v.valid
        THEN out([base EXCEPT !.validation_errors = v.errors,
                              !.warnings = v.warnings], st, <<>>, <<>>)
        ELSE IF err = "current_read"
        THEN out([r1 EXCEPT !.validation_errors = <<"update_failed">>],
                 st, <<>>, <<>>)
        ELSE IF no_change_needed(previous_value, completed_hours)
        THEN out([r2 EXCEPT !.success = TRUE, !.new_value = completed_hours],
                 st, <<>>, <<>>)
        ELSE IF dry_run
        THEN out([r2 EXCEPT !.success = TRUE, !.new_value = completed_hours,
                            !.dry_run = TRUE], st, <<>>, <<>>)
        ELSE IF err = "patch"
        THEN out([r2 EXCEPT !.validation_errors = <<"update_failed">>],
                 st, <<[work_item_id |-> id, value |-> completed_hours, ok |-> FALSE]>>,
                 <<>>)
        ELSE out(done, update_completed_work_store(st, id, completed_hours),
                 <<[work_item_id |-> id, value |-> completed_hours, ok |-> TRUE]>>,
                 <<create_audit_log(dry_run, id, done)>>)

\* the counters of update_batch before its loop
BatchInit(updates, st) ==
    [total |-> Len(updates), successful |-> 0, failed |-> 0, skipped |-> 0,
     items |-> <<>>, store |-> st, patches |-> <<>>, audit |-> <<>>,
     stopped |-> FALSE]

\* Tally without the break on a failure
TallyNoStop(acc, o, stop_on_error) ==
    [total |-> acc.total,
     successful |-> acc.successful
                    + (IF o.result.success /\ o.result.updated THEN 1 ELSE 0),
     skipped |-> acc.skipped
                 + (IF o.result.success /\ ~o.result.updated THEN 1 ELSE 0),
     failed |-> acc.failed + (IF ~o.result.success THEN 1 ELSE 0),
     items |-> Append(acc.items, o.result),
     store |-> o.store,
     patches |-> acc.patches \o o.patches,
     audit |-> acc.audit \o o.audit,
     stopped |-> FALSE]

\* the body of the loop of update_batch, o being what update_completed_work
\* returned for the update
Tally(acc, o, stop_on_error) ==
    [total |-> acc.total,
     successful |-> acc.successful
                    + (IF o.result.success /\ o.result.updated THEN 1 ELSE 0),
     skipped |-> acc.skipped
                 + (IF o.result.success /\ ~o.result.updated THEN 1 ELSE 0),
     failed |-> acc.failed + (IF ~o.result.success THEN 1 ELSE 0),
     items |-> Append(acc.items, o.result),
     store |-> o.store,
     patches |-> acc.patches \o o.patches,
     audit |-> acc.audit \o o.audit,
     stopped |-> (~o.result.success /\ stop_on_error)]

\* BatchStep with a Writer that ignores its dry_run setting
BatchStepLive(acc, dry_run, update, stop_on_error, err) ==
    Tally(acc,
          update_completed_work(acc.store, FALSE, update.work_item_id,
                                update.completed_hours, FALSE, err),
          stop_on_error)

\* one iteration of the loop of update_batch
BatchStep(acc, dry_run, update, stop_on_error, err) ==
    Tally(acc,
          update_completed_work(acc.store, dry_run, update.work_item_id,
                                update.completed_hours, FALSE, err),
          stop_on_error)

RECURSIVE BatchLoop(_, _, _, _, _, _)
BatchLoop(acc, dry_run, updates, stop_on_error, errs, k) ==
    IF k > Len(updates) \/ acc.stopped THEN acc
    ELSE BatchLoop(BatchStep(acc, dry_run, updates[k], stop_on_error, errs[k]),
                   dry_run, updates, stop_on_error, errs, k + 1)

\* WorkItemUpdater.update_batch; errs[k] is the failure met by update k
update_batch(st, dry_run, updates, stop_on_error, errs) ==
    BatchLoop(BatchInit(updates, st), dry_run, updates, stop_on_error, errs, 1)

\* ------------------------------------------------ Meeting Normaliser (D)
\* MeetingProcessor._process_single_meeting: None when start or end is
\* missing or does not parse; duration_hours = end - start
process_single_meeting(ev) ==
    IF ev.start = None \/ ev.end = None
    THEN <<>>
    ELSE <<[id |-> ev.id, subject_ids |-> ev.subject_ids, sim |-> ev.sim,
            attendees |-> ev.attendees, start_time |-> ev.start,
            end_time |-> ev.end, duration_hours |-> ev.end - ev.start,
            is_cancelled |-> ev.is_cancelled]>>

RECURSIVE process_meetings(_)
process_meetings(events) ==
    IF events = <<>> THEN <<>>
    ELSE process_single_meeting(Head(events)) \o process_meetings(Tail(events))

\* MeetingProcessor.filter_by_attendee as used by _get_meetings: keep the
\* meetings attended by one of user_emails; no filter when user_emails is empty
FilterByUsers(ms, user_emails) ==
    IF user_emails = {} THEN ms
    ELSE SelectSeq(ms, LAMBDA m : m.attendees \cap user_emails # {})

\* ------------------------------------------- Meeting -> WorkItem Matcher (E)
\* The subject of a meeting is carried as what the matcher reads from it:
\* subject_ids, the ids captured by the id patterns in pattern order, and
\* sim, its similarity (in tenths) to the title of each work item.
\* the id patterns of _match_by_id_in_subject, in the order they are tried:
\* #123, WI-123, Task 123, [123], a standalone number of 3+ digits
patterns == <<"#", "WI", "Task", "[]", "digits">>

\* re.search(pattern, subject): the first place of the subject, a sequence
\* of id mentions [pattern, id] in text order, where the pattern matches
FirstMention(subject, pattern) ==
    SelectFirst([k \in 1..Len(subject) |-> subject[k].pattern = pattern], 1)

RECURSIVE CapturesFrom(_, _)
CapturesFrom(subject, p) ==
    IF p > Len(patterns) THEN <<>>
    ELSE (IF FirstMention(subject, patterns[p]) # 0
          THEN <<subject[FirstMention(subject, patterns[p])].id>>
          ELSE <<>>) \o CapturesFrom(subject, p + 1)

\* what the loop over the patterns reads from a subject: for each pattern,
\* in pattern order, the number captured at its first match
captures(subject) == CapturesFrom(subject, 1)

IndexOfId(work_items, id) ==
    SelectFirst([k \in 1..Len(work_items) |-> work_items[k].id = id], 1)

RECURSIVE match_by_id_in_subject(_, _)
match_by_id_in_subject(ids, work_items) ==
    IF ids = <<>> THEN 0
    ELSE IF IndexOfId(work_items, Head(ids)) # 0
         THEN IndexOfId(work_items, Head(ids))
         ELSE match_by_id_in_subject(Tail(ids), work_items)

RECURSIVE BestBySimilarity(_, _, _, _)
\* the loop of _match_by_subject_similarity: a strictly greater score wins
BestBySimilarity(m, work_items, k, best) ==
    IF k > Len(work_items) THEN best
    ELSE LET score == m.sim[work_items[k].id]
         IN  BestBySimilarity(m, work_items, k + 1,
                 IF score > best.score THEN [index |-> k, score |-> score]
                 ELSE best)

match_by_subject_similarity(m, work_items) ==
    BestBySimilarity(m, work_items, 1, [index |-> 0, score |-> 0])

match_by_attendees(m, work_items) ==
    IF m.attendees = {} THEN 0
    ELSE SelectFirst([k \in 1..Len(work_items) |->
                         work_items[k].assigned_to \in m.attendees], 1)

\* the three strategies with the attendee strategy tried first
match_meeting_attendees_first(m, work_items) ==
    LET by_id == match_by_id_in_subject(m.subject_ids, work_items)
        by_sim == match_by_subject_similarity(m, work_items)
    IN  IF work_items = <<>> THEN 0
        ELSE IF match_by_attendees(m, work_items) # 0
        THEN match_by_attendees(m, work_items)
        ELSE IF by_id # 0 THEN by_id
        ELSE IF by_sim.index # 0 /\ by_sim.score >= min_similarity THEN by_sim.index
        ELSE 0

\* MeetingMatcher.match_meeting_to_workitem: index of the work item, 0 = None
match_meeting_to_workitem(m, work_items) ==
    LET by_id == match_by_id_in_subject(m.subject_ids, work_items)
        by_sim == match_by_subject_similarity(m, work_items)
    IN  IF work_items = <<>> THEN 0
        ELSE IF by_id # 0 THEN by_id
        ELSE IF by_sim.index # 0 /\ by_sim.score >= min_similarity THEN by_sim.index
        ELSE match_by_attendees(m, work_items)

\* a loop that skips no meeting
skipped_never(m) ==
    FALSE

\* the meetings the loop of match_meetings_batch passes over
skipped(m) ==
    m.is_cancelled

RECURSIVE MatchLoop(_, _, _, _)
MatchLoop(ms, work_items, k, acc) ==
    IF k > Len(ms) THEN acc
    ELSE LET m == ms[k]
             w == match_meeting_to_workitem(m, work_items)
         IN  MatchLoop(ms, work_items, k + 1,
                 IF skipped(m) THEN acc
                 ELSE IF w # 0
                 THEN [acc EXCEPT !.matched =
                          Append(@, [meeting |-> m, work_item |-> work_items[w],
                                     duration_hours |-> m.duration_hours])]
                 ELSE [acc EXCEPT !.unmatched = Append(@, m)])

\* MeetingMatcher.match_meetings_batch
match_meetings_batch(ms, work_items) ==
    LET r == MatchLoop(ms, work_items, 1, [matched |-> <<>>, unmatched |-> <<>>])
    IN  [matched |-> r.matched, unmatched |-> r.unmatched,
         total_meetings |-> Len(ms),
         matched_count |-> Len(r.matched),
         unmatched_count |-> Len(r.unmatched)]

\* ------------------------------------------------------ Time Comparator (F)
\* the thresholds of TimeComparator.__init__, in hundredths
acceptable_variance == 10
light_threshold == 25
moderate_threshold == 50

Abs(x) == IF x < 0 THEN -x ELSE x

\* float('inf'): a percentage is carried as the fraction num / den, den > 0,
\* and infinity as 1 / 0
Infinity == [num |-> 1, den |-> 0]

\* TimeComparator.calculate_variance
calculate_variance(estimated, actual) ==
    [variance_absolute |-> actual - estimated,
     variance_percentage |->
         IF estimated = 0
         THEN (IF actual = 0 THEN [num |-> 0, den |-> 1] ELSE Infinity)
         ELSE [num |-> (IF estimated < 0 THEN -1 ELSE 1) * (actual - estimated) * 100,
               den |-> Abs(estimated)],
     is_over_estimate |-> actual > estimated,
     is_under_estimate |-> actual < estimated]

\* abs_variance <= threshold, where abs_variance = abs(variance_percentage) / 100
\* and the threshold is in hundredths; nothing but infinity exceeds infinity
within(variance_percentage, threshold) ==
    /\ variance_percentage.den # 0
    /\ Abs(variance_percentage.num) <= threshold * variance_percentage.den

\* the categories with exclusive upper bounds
categorize_deviation_exclusive(variance_percentage) ==
    LET below(threshold) ==
            /\ variance_percentage.den # 0
            /\ Abs(variance_percentage.num) < threshold * variance_percentage.den
    IN  IF below(acceptable_variance) THEN "none"
        ELSE IF below(light_threshold) THEN "leve"
        ELSE IF below(moderate_threshold) THEN "moderada"
        ELSE "alta"

\* TimeComparator.categorize_deviation, the values of DeviationLevel
categorize_deviation(variance_percentage) ==
    IF within(variance_percentage, acceptable_variance) THEN "none"
    ELSE IF within(variance_percentage, light_threshold) THEN "leve"
    ELSE IF within(variance_percentage, moderate_threshold) THEN "moderada"
    ELSE "alta"

\* TimeComparator.compare_times
compare_times(work_item_id, estimated_hours, actual_hours) ==
    LET variance_result == calculate_variance(estimated_hours, actual_hours)
        deviation == categorize_deviation(variance_result.variance_percentage)
    IN  [work_item_id |-> work_item_id,
         estimated_hours |-> estimated_hours,
         actual_hours |-> actual_hours,
         variance_absolute |-> variance_result.variance_absolute,
         variance_percentage |-> variance_result.variance_percentage,
         is_over_estimate |-> variance_result.is_over_estimate,
         is_under_estimate |-> variance_result.is_under_estimate,
         deviation_level |-> deviation,
         is_acceptable |-> deviation = "none"]

\* ------------------------------------------------------ Orchestrator (I)
RECURSIVE Aggregate(_, _)
\* the aggregation loop of _compare_times: one entry per work item, in the
\* order of its first match, actual_hours the sum of the matched durations
Aggregate(ms, acc) ==
    IF ms = <<>> THEN acc
    ELSE LET wi == Head(ms).work_item
             d == Head(ms).meeting.duration_hours
             k == SelectFirst([j \in 1..Len(acc) |-> acc[j].work_item_id = wi.id], 1)
         IN  Aggregate(Tail(ms),
                 IF k = 0
                 THEN Append(acc, [work_item_id |-> wi.id,
                                   estimated_hours |-> get_scheduling_fields(wi).original_estimate,
                                   actual_hours |-> d, meeting_hours |-> d])
                 ELSE [acc EXCEPT ![k].actual_hours = @ + d,
                                  ![k].meeting_hours = @ + d])

VARIABLES
    store,              \* the work-item store: id -> record
    calendar,           \* the raw events the calendar provider returns
    dry_run,            \* Writer / Orchestrator dry_run
    conflict_strategy,  \* Orchestrator conflict_strategy = Resolver default
    audit_log,          \* WorkItemUpdater.audit_log
    conflict_log,       \* ConflictResolver.conflict_log
    execution_log,      \* TimeLoggerOrchestrator.execution_log
    last_run,           \* TimeLoggerOrchestrator.last_run (0 = None, else the run)
    pc,                 \* the stage the running run() is about to execute
    meetings,           \* meetings_result['meetings']
    work_items,         \* work_items_result['work_items']
    matched,            \* matching_result['matched']
    comparisons,        \* comparison_result['comparisons']
    updates,            \* the updates list of _update_work_items
    batch,              \* the results dict of the running update_batch
    result,             \* the result dict of the running run()
    disturbances,       \* provider calls that raised + changes made to the store by others
    calls,              \* direct calls made to the Writer / Resolver
    last,               \* what the last direct call was given and returned
    clock,              \* datetime.now() / datetime.utcnow(), in ticks
    auth,               \* GraphAuthProvider: _access_token, _token_expiry, tokens issued to _app
    graph,              \* the pages of calendar events the Graph API serves
    tracker,            \* ManualTimeTracker: entries, and where a call stands
    disk                \* the files of the manual store: storage file, CSV file

vars == <<store, calendar, dry_run, conflict_strategy, audit_log, conflict_log,
          execution_log, last_run, pc, meetings, work_items, matched,
          comparisons, updates, batch, result, disturbances, calls, last,
          clock, auth, graph, tracker, disk>>

config == <<calendar, dry_run, conflict_strategy>>
locals == <<meetings, work_items, matched, comparisons, updates, batch>>
direct == <<calls, last>>
components == <<clock, auth, graph, tracker, disk>>

Stages == {"get_meetings", "get_work_items", "match_meetings", "compare_times",
           "update_work_items", "generate_reports"}

States == {"Active", "Removed", "Closed", "Deleted"}

\* the assignee of each work item (System.AssignedTo), "" when unassigned
Assignee(id) == IF id = 1 THEN "ana" ELSE ""

\* ---------------------------------------------------------------- inputs
Event(id, ids, sim2, att, dur, cancelled) ==
    [id |-> id, subject_ids |-> ids, sim |-> [i \in Ids |-> IF i = 2 THEN sim2 ELSE 0],
     attendees |-> att, start |-> 0, end |-> dur, is_cancelled |-> cancelled]

\* the events a calendar is made of, in chronological order
EventOrder ==
    <<Event("e1", <<1>>, 0, {}, 1, FALSE),        \* "#1 ...", one hour
      Event("e2", <<>>, 7, {}, 5, FALSE),         \* subject close to the title of 2
      Event("e3", <<>>, 0, {"ana"}, 0, FALSE),    \* attended by the assignee of 1, zero length
      Event("e4", <<1>>, 0, {}, 2, FALSE)>>       \* "#1 ...", two hours

Events == { EventOrder[k] : k \in 1..Len(EventOrder) }

RECURSIVE InOrder(_, _)
\* the events of es that are in the set S, in the order of es
InOrder(es, S) ==
    IF es = <<>> THEN <<>>
    ELSE (IF Head(es) \in S THEN <<Head(es)>> ELSE <<>>) \o InOrder(Tail(es), S)

\* a calendar holds some of the events, in chronological order
Calendars == { InOrder(EventOrder, S) : S \in SUBSET Events }

InitItems ==
    [completed_work : {0, 1}, original_estimate : {2},
     state : {"Active"}, perm : {TRUE}, assigned_to : {"ana", ""}]

InitStores ==
    { st \in [Ids -> InitItems] : \A i \in Ids : st[i].assigned_to = Assignee(i) }

NoBatch == BatchInit(<<>>, <<>>)

NoCall == [op |-> "none"]

\* the components an orchestrator run does not touch, as constructed
NoToken == [access_token |-> None, token_expiry |-> None, issued |-> <<>>]
NoTracker == [entries |-> <<>>, pc |-> "idle", resume |-> "idle", row |-> 0]
NoFile == [state |-> "absent", rows |-> <<>>]
NoDisk == [storage |-> NoFile, csv |-> NoFile]

Detached ==
    /\ clock = 0
    /\ auth = NoToken
    /\ graph = <<>>
    /\ tracker = NoTracker
    /\ disk = NoDisk

\* the result dict of run() before the first stage, with what the run did
\* to the store recorded next to it (detections, items, patches)
NewResult(n) ==
    [run |-> n, success |-> FALSE, errors |-> <<>>,
     steps |-> [s \in Stages |-> "absent"],
     total_meetings |-> 0,
     matched_len |-> 0, unmatched_len |-> 0,
     matched_count |-> 0, unmatched_count |-> 0,
     successful |-> 0, failed |-> 0, skipped |-> 0,
     reports |-> 0, has_summary |-> FALSE,
     detections |-> <<>>, items |-> <<>>, patches |-> <<>>,
     store_start |-> store, store_end |-> store]

Init ==
    /\ Detached
    /\ store \in InitStores
    /\ calendar \in Calendars
    /\ dry_run \in BOOLEAN
    /\ conflict_strategy \in Strategies
    /\ audit_log = <<>>
    /\ conflict_log = <<>>
    /\ execution_log = <<>>
    /\ last_run = 0
    /\ pc = "idle"
    /\ meetings = <<>>
    /\ work_items = <<>>
    /\ matched = <<>>
    /\ comparisons = <<>>
    /\ updates = <<>>
    /\ batch = NoBatch
    /\ result = NoCall
    /\ disturbances = 0
    /\ calls = 0
    /\ last = NoCall

\* a provider call answers (ok) or raises
Raises(ok) ==
    /\ ~ok => disturbances < MaxDisturbances
    /\ disturbances' = IF ok THEN disturbances ELSE disturbances + 1

\* Abort without the error being recorded
AbortUnrecorded(r, stage, msg) ==
    /\ execution_log' = Append(execution_log,
           [r EXCEPT !.steps[stage] = "error", !.store_end = store])
    /\ pc' = "idle"
    /\ result' = NoCall
    /\ meetings' = <<>>
    /\ work_items' = <<>>
    /\ matched' = <<>>
    /\ comparisons' = <<>>
    /\ updates' = <<>>
    /\ batch' = NoBatch

\* the except branch and the tail of run(): the error is recorded, the run
\* is logged and run() returns
Abort(r, stage, msg) ==
    /\ execution_log' = Append(execution_log,
           [r EXCEPT !.steps[stage] = "error", !.errors = Append(@, msg),
                     !.success = FALSE, !.store_end = store])
    /\ pc' = "idle"
    /\ result' = NoCall
    /\ meetings' = <<>>
    /\ work_items' = <<>>
    /\ matched' = <<>>
    /\ comparisons' = <<>>
    /\ updates' = <<>>
    /\ batch' = NoBatch

\* run(), step 1: _get_meetings.  ok is whether the calendar provider answers.
GetMeetings(ok, user_emails) ==
    /\ pc = "idle"
    /\ Len(execution_log) < MaxRuns
    /\ Raises(ok)
    /\ LET r == NewResult(Len(execution_log) + 1)
           ms == FilterByUsers(process_meetings(calendar), user_emails)
       IN  IF ok
           THEN /\ meetings' = ms
                /\ result' = [r EXCEPT !.steps["get_meetings"] = "ok",
                                       !.total_meetings = Len(ms)]
                /\ pc' = "get_work_items"
                /\ UNCHANGED <<execution_log, work_items, matched, comparisons,
                               updates, batch>>
           ELSE Abort(r, "get_meetings", "Failed to retrieve meetings")
    /\ UNCHANGED <<store, config, components, audit_log, conflict_log, last_run, direct>>

\* run(), step 2: _get_work_items.  ok is whether the store answers.
GetWorkItems(ok) ==
    /\ pc = "get_work_items"
    /\ Raises(ok)
    /\ IF ok
       THEN /\ work_items' = get_work_items_batch(store, query_work_items(store))
            /\ result' = [result EXCEPT !.steps["get_work_items"] = "ok"]
            /\ pc' = "match"
            /\ UNCHANGED <<execution_log, meetings, matched, comparisons,
                           updates, batch>>
       ELSE Abort(result, "get_work_items", "Failed to retrieve work items")
    /\ UNCHANGED <<store, config, components, audit_log, conflict_log, last_run, direct>>

\* run(), step 3: _match_meetings_to_work_items.  The matcher's answer has no
\* 'statistics' key: matched and unmatched are copied, then the lookup of
\* the counts raises and the stage records the error in its own result.
MatchMeetings ==
    /\ pc = "match"
    /\ LET m == match_meetings_batch(meetings, work_items)
       IN  /\ matched' = m.matched
           /\ result' = [result EXCEPT !.steps["match_meetings"] = "error",
                                       !.matched_len = Len(m.matched),
                                       !.unmatched_len = Len(m.unmatched)]
    /\ pc' = "compare"
    /\ UNCHANGED <<store, config, components, audit_log, conflict_log, execution_log, last_run,
                   meetings, work_items, comparisons, updates, batch,
                   disturbances, direct>>

\* run(), step 4: _compare_times
CompareTimes ==
    /\ pc = "compare"
    /\ comparisons' = Aggregate(matched, <<>>)
    /\ result' = [result EXCEPT !.steps["compare_times"] = "ok"]
    /\ updates' = <<>>
    /\ pc' = "detect"
    /\ UNCHANGED <<store, config, components, audit_log, conflict_log, execution_log, last_run,
                   meetings, work_items, matched, batch, disturbances, direct>>

\* run(), step 5, the loop of _update_work_items: one comparison is taken,
\* its conflicts are detected and, if there are any, resolved with the
\* configured strategy; an unresolved item is counted as skipped, any other
\* item is queued for the Writer with the resolved value.
DetectAndResolve(err) ==
    /\ pc = "detect"
    /\ Len(result.detections) < Len(comparisons)
    /\ Raises(err = "none")
    /\ LET c == comparisons[Len(result.detections) + 1]
           info == detect_conflicts(store, c.work_item_id, c.actual_hours, None, err)
           res == resolve_conflict(info, conflict_strategy, conflict_strategy)
           skip == info.has_conflicts /\ ~res.resolved
           hours == IF info.has_conflicts THEN res.final_value ELSE c.actual_hours
           d == [work_item_id |-> c.work_item_id,
                 has_conflicts |-> info.has_conflicts,
                 conflicts |-> info.conflicts,
                 proposed_hours |-> c.actual_hours,
                 final_value |-> hours,
                 can_proceed |-> info.can_proceed,
                 action_taken |-> IF info.has_conflicts THEN res.action_taken ELSE "None",
                 queued |-> ~skip]
       IN  /\ conflict_log' = IF info.has_conflicts /\ res.logged
                              THEN Append(conflict_log, LogResolution(info, res))
                              ELSE conflict_log
           /\ updates' = IF skip THEN updates
                         ELSE Append(updates, [work_item_id |-> c.work_item_id,
                                               completed_hours |-> hours])
           /\ result' = [result EXCEPT !.detections = Append(@, d),
                                       !.skipped = IF skip THEN @ + 1 ELSE @]
    /\ UNCHANGED <<store, config, components, audit_log, execution_log, last_run, pc, meetings,
                   work_items, matched, comparisons, batch, direct>>

\* run(), step 5, after the loop: update_batch is called when updates is not empty
StartBatch ==
    /\ pc = "detect"
    /\ Len(result.detections) = Len(comparisons)
    /\ batch' = [BatchInit(updates, <<>>) EXCEPT !.store = <<>>]
    /\ pc' = IF updates # <<>> THEN "write" ELSE "report"
    /\ result' = [result EXCEPT !.steps["update_work_items"] = "ok"]
    /\ UNCHANGED <<store, config, components, audit_log, conflict_log, execution_log, last_run,
                   meetings, work_items, matched, comparisons, updates,
                   disturbances, direct>>

\* one iteration of update_batch(updates) as called by _update_work_items
WriteNext(err) ==
    /\ pc = "write"
    /\ Len(batch.items) < Len(updates)
    /\ Raises(err = "none")
    /\ LET b == BatchStep([batch EXCEPT !.store = store, !.patches = <<>>,
                                        !.audit = <<>>],
                          dry_run, updates[Len(batch.items) + 1], FALSE, err)
       IN  /\ store' = b.store
           /\ audit_log' = audit_log \o b.audit
           /\ batch' = [b EXCEPT !.store = <<>>, !.patches = <<>>, !.audit = <<>>]
           /\ result' = [result EXCEPT !.patches = @ \o b.patches]
    /\ UNCHANGED <<config, components, conflict_log, execution_log, last_run, pc, meetings,
                   work_items, matched, comparisons, updates, direct>>

\* update_batch returns: its counters are copied into the stage result
EndBatch ==
    /\ pc = "write"
    /\ Len(batch.items) = Len(updates)
    /\ result' = [result EXCEPT !.successful = batch.successful,
                                !.failed = batch.failed,
                                !.skipped = @ + batch.skipped,
                                !.items = batch.items]
    /\ pc' = "report"
    /\ UNCHANGED <<store, config, components, audit_log, conflict_log, execution_log, last_run,
                   meetings, work_items, matched, comparisons, updates, batch,
                   disturbances, direct>>

\* run(), step 6 and the end of run(): the reports are written (ok) or the
\* stage records its error; the summary is built, success and last_run are
\* set and the run is logged.
GenerateReports(ok) ==
    /\ pc = "report"
    /\ Raises(ok)
    /\ execution_log' = Append(execution_log,
           [result EXCEPT !.steps["generate_reports"] = IF ok THEN "ok" ELSE "error",
                          !.reports = IF ok THEN 2 ELSE 0,
                          !.has_summary = TRUE,
                          !.success = TRUE,
                          !.store_end = store])
    /\ last_run' = result.run
    /\ pc' = "idle"
    /\ result' = NoCall
    /\ meetings' = <<>>
    /\ work_items' = <<>>
    /\ matched' = <<>>
    /\ comparisons' = <<>>
    /\ updates' = <<>>
    /\ batch' = NoBatch
    /\ UNCHANGED <<store, config, components, audit_log, conflict_log, direct>>

\* another party changes a work item in the store
ExternalChange(id, item) ==
    /\ pc \in {"detect", "write"}
    /\ disturbances < MaxDisturbances
    /\ item # store[id]
    /\ store' = [store EXCEPT ![id] = item]
    /\ disturbances' = disturbances + 1
    /\ UNCHANGED <<config, components, audit_log, conflict_log, execution_log, last_run, pc,
                   locals, result, direct>>

\* what another party may do to an item: log hours, remove it, lose access
ExternalItems(it) ==
    { [it EXCEPT !.completed_work = 5],
      [it EXCEPT !.state = "Removed"],
      [it EXCEPT !.perm = FALSE] }

Next ==
    \/ \E ok \in BOOLEAN : GetMeetings(ok, {})
    \/ \E ok \in BOOLEAN : GetWorkItems(ok)
    \/ MatchMeetings
    \/ CompareTimes
    \/ \E err \in DetectErrs : DetectAndResolve(err)
    \/ StartBatch
    \/ \E err \in WriteErrs : WriteNext(err)
    \/ EndBatch
    \/ \E ok \in BOOLEAN : GenerateReports(ok)
    \/ \E id \in Ids : \E item \in ExternalItems(store[id]) : ExternalChange(id, item)

Spec == Init /\ [][Next]_vars

\* ------------------------------------------- direct calls to the Writer (H)
Hours == {-1, 1, 5}

WriterItems ==
    [completed_work : {0, 1}, original_estimate : {0, 2},
     state : {"Active", "Closed"}, perm : BOOLEAN, assigned_to : {"ana", ""}]

WriterStores ==
    { st \in [Ids -> WriterItems] :
        /\ \A i \in Ids : st[i].assigned_to = Assignee(i)
        /\ st[2] \in InitItems }

\* the hours of the updates of a batch: 5 passes validation for an item
\* without estimate and fails it for an estimate of 2
BatchHours == {1, 5}

Updates == [work_item_id : Ids, completed_hours : BatchHours]

Batches == UNION { [1..n -> Updates] : n \in 0..MaxBatch }

Idle ==
    /\ audit_log = <<>>
    /\ conflict_log = <<>>
    /\ execution_log = <<>>
    /\ last_run = 0
    /\ pc = "idle"
    /\ meetings = <<>>
    /\ work_items = <<>>
    /\ matched = <<>>
    /\ comparisons = <<>>
    /\ updates = <<>>
    /\ batch = NoBatch
    /\ result = NoCall
    /\ disturbances = 0
    /\ calls = 0
    /\ last = NoCall

InitWriter ==
    /\ Detached
    /\ store \in WriterStores
    /\ calendar = <<>>
    /\ dry_run \in BOOLEAN
    /\ conflict_strategy = "skip"
    /\ Idle

\* a caller invokes WorkItemUpdater.update_completed_work
CallUpdate(id, hours, force, err) ==
    /\ pc = "idle"
    /\ calls < MaxCalls
    /\ Raises(err = "none")
    /\ \E o \in {update_completed_work(store, dry_run, id, hours, force, err)} :
           /\ store' = o.store
           /\ audit_log' = audit_log \o o.audit
           /\ last' = [op |-> "update_completed_work", work_item_id |-> id,
                       completed_hours |-> hours, force |-> force, err |-> err,
                       before |-> store[id].completed_work,
                       valid |-> force \/ validate_update(store, id, hours, err).valid,
                       result |-> o.result, patches |-> o.patches,
                       audit_added |-> o.audit]
    /\ calls' = calls + 1
    /\ UNCHANGED <<config, components, conflict_log, execution_log, last_run, pc, locals, result>>

\* a caller invokes WorkItemUpdater.update_batch: the counters are set up
CallBatch(us, stop_on_error) ==
    /\ pc = "idle"
    /\ calls < MaxCalls
    /\ pc' = "batch"
    /\ updates' = us
    /\ batch' = [BatchInit(us, <<>>) EXCEPT !.store = <<>>]
    /\ last' = [op |-> "update_batch", stop_on_error |-> stop_on_error,
                returned |-> FALSE, audit_before |-> audit_log]
    /\ UNCHANGED <<store, config, components, audit_log, conflict_log, execution_log, last_run,
                   meetings, work_items, matched, comparisons, result,
                   disturbances, calls>>

\* one iteration of the loop of update_batch
BatchNext(err) ==
    /\ pc = "batch"
    /\ ~batch.stopped
    /\ Len(batch.items) < Len(updates)
    /\ Raises(err = "none")
    /\ \E b \in {BatchStep([batch EXCEPT !.store = store], dry_run,
                           updates[Len(batch.items) + 1], last.stop_on_error, err)} :
           /\ store' = b.store
           /\ audit_log' = audit_log \o SubSeq(b.audit, Len(batch.audit) + 1, Len(b.audit))
           /\ batch' = [b EXCEPT !.store = <<>>]
    /\ UNCHANGED <<config, components, conflict_log, execution_log, last_run, pc, meetings,
                   work_items, matched, comparisons, updates, result, direct>>

\* update_batch returns its counters
BatchReturn ==
    /\ pc = "batch"
    /\ batch.stopped \/ Len(batch.items) = Len(updates)
    /\ pc' = "idle"
    /\ last' = [op |-> "update_batch", stop_on_error |-> last.stop_on_error,
                returned |-> TRUE, audit_before |-> last.audit_before,
                updates |-> updates,
                total |-> batch.total, successful |-> batch.successful,
                failed |-> batch.failed, skipped |-> batch.skipped,
                items |-> batch.items, patches |-> batch.patches,
                audit_added |-> batch.audit]
    /\ calls' = calls + 1
    /\ updates' = <<>>
    /\ batch' = NoBatch
    /\ UNCHANGED <<store, config, components, audit_log, conflict_log, execution_log, last_run,
                   meetings, work_items, matched, comparisons, result, disturbances>>

NextWriter ==
    \/ \E id \in Ids, hours \in Hours, force \in BOOLEAN, err \in WriteErrs :
          CallUpdate(id, hours, force, err)
    \/ \E us \in Batches, stop_on_error \in BOOLEAN : CallBatch(us, stop_on_error)
    \/ \E err \in WriteErrs : BatchNext(err)
    \/ BatchReturn

SpecWriter == InitWriter /\ [][NextWriter]_vars

\* ----------------------------------------- direct calls to the Resolver (G)
Proposals == {0, 1, 5, 6}

LastKnown == {None, 0, 1}

ResolverItems ==
    [completed_work : {0, 1}, original_estimate : {0, 2},
     state : {"Active", "Removed", "Deleted", "Closed"}, perm : BOOLEAN,
     assigned_to : {"ana", ""}]

ResolverStores ==
    { st \in [Ids -> ResolverItems] :
        /\ \A i \in Ids : st[i].assigned_to = Assignee(i)
        /\ st[2] \in InitItems }

InitResolver ==
    /\ Detached
    /\ store \in ResolverStores
    /\ calendar = <<>>
    /\ dry_run = FALSE
    /\ conflict_strategy \in Strategies
    /\ Idle

\* a caller invokes ConflictResolver.detect_conflicts
CallDetect(id, proposed, last_known, err) ==
    /\ calls < MaxCalls
    /\ Raises(err = "none")
    /\ last' = [op |-> "detect_conflicts", err |-> err,
                info |-> detect_conflicts(store, id, proposed, last_known, err)]
    /\ calls' = calls + 1
    /\ UNCHANGED <<store, config, components, audit_log, conflict_log, execution_log, last_run,
                   pc, locals, result>>

\* a caller passes the conflict_info it holds to ConflictResolver.resolve_conflict
CallResolve(strategy) ==
    /\ calls < MaxCalls
    /\ last.op \in {"detect_conflicts", "resolve_conflict"}
    /\ LET res == resolve_conflict(last.info, strategy, conflict_strategy)
       IN  /\ conflict_log' = IF res.logged
                              THEN Append(conflict_log, LogResolution(last.info, res))
                              ELSE conflict_log
           /\ last' = [op |-> "resolve_conflict", err |-> last.err, info |-> last.info,
                       strategy |-> strategy, resolution |-> res,
                       log_before |-> conflict_log]
    /\ calls' = calls + 1
    /\ UNCHANGED <<store, config, components, audit_log, execution_log, last_run, pc, locals,
                   result, disturbances>>

NextResolver ==
    \/ \E id \in Ids, proposed \in Proposals, last_known \in LastKnown,
          err \in DetectErrs : CallDetect(id, proposed, last_known, err)
    \/ \E strategy \in Strategies \cup {"None"} : CallResolve(strategy)

SpecResolver == InitResolver /\ [][NextResolver]_vars

\* ------------------------------------------- validation by the Writer (H)
\* hours around the limits 0 and 1000 and, for the estimates 2 and 500,
\* around the ratios 1.5 and 2.0
ValidateHours == {-1, 0, 3, 4, 5, 1000, 1001}

ValidateItems ==
    [completed_work : {0, 1}, original_estimate : {0, 2, 500},
     state : {"Active", "Closed", "Removed"}, perm : BOOLEAN, assigned_to : {"ana"}]

InitValidate ==
    /\ Detached
    /\ store \in { st \in [Ids -> ValidateItems \cup InitItems] :
                     /\ st[1] \in ValidateItems
                     /\ st[2] \in InitItems /\ st[2].completed_work = 0
                     /\ st[2].assigned_to = Assignee(2) }
    /\ calendar = <<>>
    /\ dry_run \in BOOLEAN
    /\ conflict_strategy = "skip"
    /\ Idle

NextValidate ==
    \E hours \in ValidateHours, force \in BOOLEAN, err \in WriteErrs :
        CallUpdate(1, hours, force, err)

SpecValidate == InitValidate /\ [][NextValidate]_vars

\* ------------------------------------------- the process-scoped logs (G, H)
\* the Writer and the Resolver of one process serve call after call
InitLogs ==
    /\ Detached
    /\ store = [i \in Ids |-> [completed_work |-> IF i = 1 THEN 1 ELSE 0,
                               original_estimate |-> 2, state |-> "Active",
                               perm |-> TRUE, assigned_to |-> Assignee(i)]]
    /\ calendar = <<>>
    /\ dry_run = FALSE
    /\ conflict_strategy = "override"
    /\ Idle

\* update_completed_work(2, hours): an applied update is logged by create_audit_log
LogUpdate(hours) ==
    /\ Len(audit_log) < MaxLog
    /\ \E o \in {update_completed_work(store, dry_run, 2, hours, FALSE, "none")} :
           /\ store' = o.store
           /\ audit_log' = audit_log \o o.audit
    /\ UNCHANGED <<config, components, conflict_log, execution_log, last_run, pc, locals, result,
                   disturbances, direct>>

\* detect_conflicts(1, hours) then resolve_conflict: a resolution reached
\* with a strategy is logged by _log_resolution
LogResolve(hours) ==
    /\ Len(conflict_log) < MaxLog
    /\ \E info \in {detect_conflicts(store, 1, hours, None, "none")} :
         \E res \in {resolve_conflict(info, "None", conflict_strategy)} :
           conflict_log' = IF res.logged
                           THEN Append(conflict_log, LogResolution(info, res))
                           ELSE conflict_log
    /\ UNCHANGED <<store, config, components, audit_log, execution_log, last_run, pc, locals,
                   result, disturbances, direct>>

NextLogs ==
    \/ \E hours \in {0, 1} : LogUpdate(hours)
    \/ LogResolve(1)

SpecLogs == InitLogs /\ [][NextLogs]_vars

\* ------------------------------------------------------------ properties
\* the runs that have returned
LoggedRuns == { execution_log[k] : k \in 1..Len(execution_log) }

\* the Writer was called for item id in run r
Written(r, id) == \E k \in 1..Len(r.items) : r.items[k].work_item_id = id

\* the Writer sent a PATCH for item id in run r
Patched(r, id) == \E k \in 1..Len(r.patches) : r.patches[k].work_item_id = id

DetectionsOf(r) == { r.detections[k] : k \in 1..Len(r.detections) }

\* C1: in a run, an item whose conflict detection returned can_proceed =
\* false is not handed to the Writer and is counted as skipped (it is not
\* queued for the batch, whose outcome would count it otherwise).
BlockedItemsAreSkipped ==
    \A r \in LoggedRuns : \A d \in DetectionsOf(r) :
        ~d.can_proceed => ~d.queued /\ ~Written(r, d.work_item_id)

\* C2: in a run, an item whose conflict was resolved with strategy skip is
\* not handed to the Writer and no PATCH is sent for it, whatever another
\* party does to the store between the detection and the Writer's read.
SkippedItemsAreNotWritten ==
    \A r \in LoggedRuns : \A d \in DetectionsOf(r) :
        d.action_taken = "skip" =>
            ~Written(r, d.work_item_id) /\ ~Patched(r, d.work_item_id)

\* C4: two runs in succession on the same calendar and work items, nothing
\* failing and nobody else changing the store: the second run sends no
\* PATCH and leaves completed_work of every item as the first run left it.
SecondRunIsNoOp ==
    (Len(execution_log) = 2 /\ disturbances = 0) =>
        /\ execution_log[2].patches = <<>>
        /\ \A i \in Ids : execution_log[2].store_end[i].completed_work
                          = execution_log[1].store_end[i].completed_work

\* the hours of the meetings of run r matched to item id, summed
MatchedHours(r, id) ==
    LET m == match_meetings_batch(process_meetings(calendar),
                                  get_work_items_batch(r.store_start,
                                      query_work_items(r.store_start))).matched
    IN  SumSeq([k \in 1..Len(m) |-> IF m[k].work_item.id = id
                                    THEN m[k].meeting.duration_hours ELSE 0])

HasMatch(r, id) ==
    LET m == match_meetings_batch(process_meetings(calendar),
                                  get_work_items_batch(r.store_start,
                                      query_work_items(r.store_start))).matched
    IN  \E k \in 1..Len(m) : m[k].work_item.id = id

\* the audit entries of item id
AuditOf(id) == SelectSeq(audit_log, LAMBDA e : e.work_item_id = id)

\* C7: a first run that is not a dry run, nothing failing and nobody else
\* changing the store; an item with completed_work 0, a positive estimate,
\* permission, a non-terminal state and matched meetings whose summed hours
\* pass validation gets exactly one PATCH, which sets completed_work to
\* that sum, and the audit log then holds exactly one entry for the item.
MatchedItemIsPatchedOnce ==
    (Len(execution_log) = 1 /\ pc = "idle" /\ disturbances = 0 /\ ~dry_run) =>
        LET r == execution_log[1]
        IN  \A i \in Ids :
               LET it == r.store_start[i]
               IN  ( /\ it.completed_work = 0
                     /\ it.original_estimate > 0
                     /\ it.perm
                     /\ it.state \notin {"Removed", "Closed", "Deleted"}
                     /\ HasMatch(r, i)
                     /\ validate_update(r.store_start, i, MatchedHours(r, i), "none").valid )
                   => /\ SelectSeq(r.patches, LAMBDA p : p.work_item_id = i)
                           = <<[work_item_id |-> i, value |-> MatchedHours(r, i),
                                ok |-> TRUE]>>
                      /\ r.store_end[i].completed_work = MatchedHours(r, i)
                      /\ Len(AuditOf(i)) = 1

\* C8: a failure of a stage after the first does not end the run: the run
\* goes on to its last stage, the error is in the top-level errors of the
\* run record, and errors is not empty in any run with a failed stage.
LaterStageFailureIsRecorded ==
    \A r \in LoggedRuns :
        /\ (\E s \in Stages : r.steps[s] = "error") => r.errors # <<>>
        /\ (\E s \in Stages \ {"get_meetings"} : r.steps[s] = "error")
               => r.steps["generate_reports"] # "absent"

\* the runs whose first stage failed
FirstStageFailed(r) == r.steps["get_meetings"] = "error"

\* C9: a run whose first stage failed returns success = false with errors,
\* has run no later stage, read no work item for conflict detection and
\* sent no PATCH; it is in the execution log and last_run is not set to it.
FirstStageFailureIsFatal ==
    \A k \in 1..Len(execution_log) :
        LET r == execution_log[k]
        IN  FirstStageFailed(r) =>
               /\ ~r.success
               /\ r.errors # <<>>
               /\ \A s \in Stages \ {"get_meetings"} : r.steps[s] = "absent"
               /\ r.detections = <<>>
               /\ r.items = <<>>
               /\ r.patches = <<>>
               /\ r.store_end = r.store_start
               /\ r.run = k
               /\ last_run # k

\* C9, reached: a run whose first stage failed is in the execution log
\* after a run that succeeded
FirstStageFailureLogged ==
    /\ Len(execution_log) = 2
    /\ execution_log[1].success
    /\ FirstStageFailed(execution_log[2])
    /\ last_run = 1

\* the results update_completed_work has returned in the call under way or
\* just made: the result of a direct call, the items of a batch
WriterResults ==
    (IF last.op = "update_completed_work" THEN {last.result} ELSE {})
    \cup { batch.items[k] : k \in 1..Len(batch.items) }
    \cup (IF last.op = "update_batch" /\ last.returned
          THEN { last.items[k] : k \in 1..Len(last.items) } ELSE {})

\* the PATCH requests of that call
WriterPatches ==
    batch.patches \o (IF last.op = "update_completed_work"
                         \/ (last.op = "update_batch" /\ last.returned)
                      THEN last.patches ELSE <<>>)

\* validation let the call through (or was bypassed with force): the
\* result carries no validation error, at most the failure of a store call
PassedValidation(r) ==
    \A k \in 1..Len(r.validation_errors) : r.validation_errors[k] = "update_failed"

\* C3: with dry_run = true no call of update_completed_work or
\* update_batch, forced or not, sends a PATCH, and every call that passes
\* validation and reads a current value different from hours returns
\* success = true, updated = false, dry_run = true.
DryRunNeverWrites ==
    dry_run =>
        /\ WriterPatches = <<>>
        /\ \A r \in WriterResults :
              ( /\ PassedValidation(r)
                /\ r.previous_value # None
                /\ r.completed_hours # store[r.work_item_id].completed_work )
              => r.success /\ ~r.updated /\ r.dry_run

\* C3, reached: in dry-run mode a batch has returned after a forced direct
\* call, with an update previewed
DryRunPreviewed ==
    /\ dry_run
    /\ calls = 2
    /\ last.op = "update_batch"
    /\ last.returned
    /\ \E k \in 1..Len(last.items) :
          /\ last.items[k].dry_run
          /\ last.items[k].completed_hours
               # store[last.items[k].work_item_id].completed_work

\* C6: the counters update_batch returns add up to its total, the number
\* of updates passed in, for either value of stop_on_error.
BatchCountersAddUp ==
    (last.op = "update_batch" /\ last.returned) =>
        /\ last.total = Len(last.updates)
        /\ last.successful + last.failed + last.skipped = last.total

\* C10: every call of update_completed_work (applied, no-op, dry-run
\* preview, validation failure, store error) appends exactly one entry to
\* the audit log, and in dry-run mode that entry has dry_run = true.
EveryAttemptIsAudited ==
    last.op = "update_completed_work" =>
        /\ Len(last.audit_added) = 1
        /\ dry_run => last.audit_added[1].dry_run

\* C5: resolve_conflict never returns resolved = true for a conflict_info
\* whose can_proceed is false, whatever the strategy, the conflict_info of
\* a failed read (has_conflicts = false, can_proceed = false) included.
BlockedIsNeverResolved ==
    (last.op = "resolve_conflict" /\ ~last.info.can_proceed)
        => ~last.resolution.resolved

\* C11: every call of resolve_conflict, the calls that end with
\* 'no_conflicts' or 'blocked' included, appends exactly one entry to the
\* conflict log, which carries the id, the conflict kinds, the strategy,
\* the action, the resolved flag and the current, proposed and final values
\* of that call, so that the entries are in the order of the calls.
EveryResolutionIsLogged ==
    last.op = "resolve_conflict" =>
        conflict_log = Append(last.log_before,
                              LogResolution(last.info, last.resolution))

\* C12: the audit log of the Writer and the conflict log of the Resolver
\* never hold more than 100 entries (older entries are dropped, the most
\* recent 100 are kept).
LogsAreCapped ==
    /\ Len(audit_log) <= 100
    /\ Len(conflict_log) <= 100

\* the kinds of the conflicts of a conflict_info
KindsOf(info) == { info.conflicts[k] : k \in 1..Len(info.conflicts) }

\* C13: detect_conflicts emits exactly the conflicts of the rules, on the
\* values the store holds: manual_update iff last_known is given and differs
\* from current; value_mismatch iff last_known is absent and current > 0;
\* overbudget iff estimate > 0 and proposed / estimate > 2.5;
\* work_item_locked iff the state is Removed or Deleted; permission_denied
\* iff the store reports no permission.  has_conflicts iff one was emitted;
\* can_proceed is false iff work_item_locked or permission_denied was
\* emitted or a store call failed.
DetectFollowsRules ==
    last.op = "detect_conflicts" =>
        LET info == last.info
            it == store[info.work_item_id]
            kinds == KindsOf(info)
            read == last.err # "read"
        IN  /\ Len(info.conflicts) = Cardinality(kinds)
            /\ "manual_update" \in kinds
                  <=> ( /\ read
                        /\ info.last_known_hours # None
                        /\ it.completed_work # info.last_known_hours )
            /\ "value_mismatch" \in kinds
                  <=> (read /\ info.last_known_hours = None /\ it.completed_work > 0)
            /\ "overbudget" \in kinds
                  <=> ( /\ read
                        /\ it.original_estimate > 0
                        /\ 10 * info.proposed_hours > 25 * it.original_estimate )
            /\ "work_item_locked" \in kinds
                  <=> (read /\ it.state \in {"Removed", "Deleted"})
            /\ "permission_denied" \in kinds <=> (last.err = "none" /\ ~it.perm)
            /\ kinds \subseteq {"manual_update", "value_mismatch", "overbudget",
                                "work_item_locked", "permission_denied"}
            /\ info.has_conflicts <=> kinds # {}
            /\ ~info.can_proceed
                  <=> ( \/ "work_item_locked" \in kinds
                        \/ "permission_denied" \in kinds
                        \/ last.err # "none" )

\* C13, reached: a detection with proposed / estimate exactly 2.5 on an
\* item somebody has changed, which reports manual_update and nothing else
DetectAtOverbudgetBound ==
    /\ last.op = "detect_conflicts"
    /\ last.err = "none"
    /\ store[last.info.work_item_id].original_estimate = 2
    /\ last.info.proposed_hours = 5
    /\ last.info.conflicts = <<"manual_update">>
    /\ last.info.can_proceed

\* C14: for a conflict_info with has_conflicts and can_proceed,
\* resolve_conflict returns final_value = proposed and resolved under
\* override, current + proposed and resolved under add, current and
\* resolved under skip, no final_value and not resolved under fail; the
\* default strategy of the resolver is used when none is passed.
ResolveFollowsStrategy ==
    ( /\ last.op = "resolve_conflict"
      /\ last.info.has_conflicts
      /\ last.info.can_proceed )
    => LET s == IF last.strategy = "None" THEN conflict_strategy ELSE last.strategy
           r == last.resolution
           current == store[last.info.work_item_id].completed_work
           proposed == last.info.proposed_hours
       IN  /\ r.strategy = s
           /\ s = "override" => r.resolved /\ r.final_value = proposed
           /\ s = "add" => r.resolved /\ r.final_value = current + proposed
           /\ s = "skip" => r.resolved /\ r.final_value = current
           /\ s = "fail" => ~r.resolved /\ r.final_value = None

\* C14, reached: a conflict resolved without a strategy passed, by the
\* default strategy add, to 1 + 5
ResolvedByDefaultAdd ==
    /\ last.op = "resolve_conflict"
    /\ last.strategy = "None"
    /\ conflict_strategy = "add"
    /\ last.info.has_conflicts
    /\ last.info.can_proceed
    /\ last.info.proposed_hours = 5
    /\ last.resolution.resolved
    /\ last.resolution.final_value = 6

\* the sequence s as a set
Range(s) == { s[k] : k \in 1..Len(s) }

\* the hours differ from the value held and the Writer is not in dry-run
\* mode: the call sends one PATCH, which sets the value
WriteProceeds ==
    (last.completed_hours # last.before /\ ~dry_run) =>
        /\ last.patches = <<[work_item_id |-> last.work_item_id,
                             value |-> last.completed_hours, ok |-> TRUE]>>
        /\ store[last.work_item_id].completed_work = last.completed_hours

\* C15: without force update_completed_work sends no PATCH and returns
\* success = false when hours < 0, hours > 1000, estimate > 0 and
\* hours / estimate > 2.0, or the store reports no permission; hours 0 and
\* 1000 and a ratio of exactly 2.0 pass; a state Removed or Closed and a
\* ratio in (1.5, 2.0] give a warning only and the write proceeds; with
\* force none of the checks is run.
UpdateFollowsValidation ==
    last.op = "update_completed_work" =>
        LET h == last.completed_hours
            it == store[last.work_item_id]
            est == it.original_estimate
            r == last.result
            rejected == \/ h < 0
                        \/ h > 1000
                        \/ (est > 0 /\ 10 * h > 20 * est)
                        \/ ~it.perm
        IN  /\ (~last.force /\ rejected)
                  => /\ ~r.success
                     /\ last.patches = <<>>
                     /\ it.completed_work = last.before
            /\ (~last.force /\ ~rejected /\ last.err = "none")
                  => /\ r.success
                     /\ r.validation_errors = <<>>
                     /\ "state" \in Range(r.warnings)
                           <=> it.state \in {"Removed", "Closed"}
                     /\ "high_variance" \in Range(r.warnings)
                           <=> (est > 0 /\ 10 * h > 15 * est)
                     /\ WriteProceeds
            /\ (last.force /\ last.err \notin {"current_read", "patch"})
                  => /\ r.success
                     /\ r.validation_errors = <<>>
                     /\ r.warnings = <<>>
                     /\ WriteProceeds

\* C15, reached: 1000 hours written without force to a Closed item whose
\* estimate is 500, with the two warnings
UpdateAtTheLimits ==
    /\ last.op = "update_completed_work"
    /\ ~last.force
    /\ last.completed_hours = 1000
    /\ store[1].original_estimate = 500
    /\ store[1].state = "Closed"
    /\ last.result.updated
    /\ Range(last.result.warnings) = {"state", "high_variance"}
    /\ store[1].completed_work = 1000

\* the call returned a no-op: success without update, nothing sent, the
\* store as it was
ReturnedNoOp ==
    /\ last.result.success
    /\ ~last.result.updated
    /\ last.result.previous_value = last.completed_hours
    /\ last.result.new_value = last.completed_hours
    /\ last.patches = <<>>
    /\ store[last.work_item_id].completed_work = last.before

\* C16, as stated: update_completed_work(id, hours) on an item whose
\* completed_work equals hours (the store answering every call) returns
\* success = true, updated = false, previous_value = new_value = hours,
\* sends no PATCH and leaves the store unchanged.
EqualValueIsNoOp ==
    ( /\ last.op = "update_completed_work"
      /\ last.err = "none"
      /\ last.completed_hours = last.before )
    => ReturnedNoOp

\* C16, amended: update_completed_work(id, hours) that passes validation
\* or is forced, on an item whose completed_work equals hours (the store
\* answering every call), returns success = true, updated = false,
\* previous_value = new_value = hours, sends no PATCH and leaves the store
\* unchanged.
ValidEqualValueIsNoOp ==
    ( /\ last.op = "update_completed_work"
      /\ last.err = "none"
      /\ last.valid
      /\ last.completed_hours = last.before )
    => ReturnedNoOp

\* C16, reached: outside dry-run mode a second call asks without force for
\* the 4 hours the first call wrote, and passes validation
SecondCallSameHours ==
    /\ last.op = "update_completed_work"
    /\ calls = 2
    /\ ~dry_run
    /\ ~last.force
    /\ last.err = "none"
    /\ last.valid
    /\ last.completed_hours = 4
    /\ last.before = 4

\* the items of a returned batch that were written, in order
WrittenItems(items) == SelectSeq(items, LAMBDA r : r.success /\ r.updated)

\* C17: update_batch handles the updates in input order: item k of the
\* result is the result for update k and the audit entries and the PATCH
\* requests follow that order; with stop_on_error the items are the input
\* up to and including the first failed update and nothing is sent for a
\* later one; without it every update is handled.
BatchKeepsInputOrder ==
    (last.op = "update_batch" /\ last.returned) =>
        LET n == Len(last.items)
            w == WrittenItems(last.items)
            sent == SelectSeq(last.patches, LAMBDA p : p.ok)
        IN  /\ n <= Len(last.updates)
            /\ \A k \in 1..n :
                  /\ last.items[k].work_item_id = last.updates[k].work_item_id
                  /\ last.items[k].completed_hours = last.updates[k].completed_hours
            /\ n < Len(last.updates)
                  => (last.stop_on_error /\ n > 0 /\ ~last.items[n].success)
            /\ last.stop_on_error => \A k \in 1..(n - 1) : last.items[k].success
            /\ ~last.stop_on_error => n = Len(last.updates)
            /\ audit_log = last.audit_before \o last.audit_added
            /\ Len(last.audit_added) = Len(w)
            /\ Len(sent) = Len(w)
            /\ \A j \in 1..Len(w) :
                  /\ last.audit_added[j].work_item_id = w[j].work_item_id
                  /\ last.audit_added[j].previous_value = w[j].previous_value
                  /\ last.audit_added[j].new_value = w[j].new_value
                  /\ sent[j].work_item_id = w[j].work_item_id
                  /\ sent[j].value = w[j].completed_hours

\* C17, reached: a batch of two updates with stop_on_error stopped at the
\* first, which failed
BatchStoppedAtFirst ==
    /\ last.op = "update_batch"
    /\ last.returned
    /\ last.stop_on_error
    /\ Len(last.updates) = 2
    /\ Len(last.items) = 1
    /\ ~last.items[1].success

\* ------------------------------------------------ matcher called directly

MentionPatterns == {"#", "[]"}
Mentions == [pattern : MentionPatterns, id : Ids]
Subjects == UNION { [1..n -> Mentions] : n \in 0..MaxMentions }

\* similarity of a subject to a title, in tenths
Scores == {0, 5, 6}

\* a processed meeting whose subject carries the mentions of subject
Meeting(subject, sim, attendees, dur, cancelled) ==
    [id |-> "m", subject |-> subject, subject_ids |-> captures(subject),
     sim |-> sim, attendees |-> attendees, duration_hours |-> dur,
     is_cancelled |-> cancelled]

Meetings ==
    { Meeting(subject, sim, att, 1, FALSE) :
        subject \in Subjects, sim \in [Ids -> Scores], att \in SUBSET {"ana"} }

Candidate(id, assigned_to) ==
    [id |-> id, original_estimate |-> 2, completed_work |-> 0,
     state |-> "Active", assigned_to |-> assigned_to]

\* the candidate lists: work items with distinct ids, in any order
CandidateLists ==
    { ws \in UNION { [1..n -> { Candidate(i, a) : i \in Ids, a \in {"ana", ""} }] :
                       n \in 0..2 } :
        \A j, k \in 1..Len(ws) : j # k => ws[j].id # ws[k].id }

InitMatcher ==
    /\ Detached
    /\ store \in { st \in InitStores : \A i \in Ids : st[i].completed_work = 0 }
    /\ calendar = <<>>
    /\ dry_run = FALSE
    /\ conflict_strategy = "manual"
    /\ audit_log = <<>>
    /\ conflict_log = <<>>
    /\ execution_log = <<>>
    /\ last_run = 0
    /\ pc = "idle"
    /\ meetings \in { <<m>> : m \in Meetings }
    /\ work_items \in CandidateLists
    /\ matched = <<>>
    /\ comparisons = <<>>
    /\ updates = <<>>
    /\ batch = NoBatch
    /\ result = NoCall
    /\ disturbances = 0
    /\ calls = 0
    /\ last = NoCall

\* a caller invokes MeetingMatcher.match_meeting_to_workitem; index is the
\* place of the returned work item among the candidates, 0 for None
CallMatch ==
    /\ last.op = "none"
    /\ \E w \in {match_meeting_to_workitem(meetings[1], work_items)} :
          last' = [op |-> "match_meeting_to_workitem", meeting |-> meetings[1],
                   candidates |-> work_items,
                   index |-> w]
    /\ calls' = calls + 1
    /\ UNCHANGED <<store, config, components, audit_log, conflict_log, execution_log, last_run,
                   pc, locals, result, disturbances>>

NextMatcher == CallMatch

SpecMatcher == InitMatcher /\ [][NextMatcher]_vars

\* the ids of the candidates
CandidateIds(ws) == { ws[k].id : k \in 1..Len(ws) }

\* the best similarity of the subject to a candidate's title
BestScore(m, ws) ==
    IF ws = <<>> THEN 0
    ELSE CHOOSE s \in { m.sim[i] : i \in CandidateIds(ws) } :
             \A i \in CandidateIds(ws) : m.sim[i] <= s

\* C18 as stated: whenever the subject mentions the id of a candidate, the
\* matcher returns that candidate
MentionedCandidateIsReturned ==
    last.op = "match_meeting_to_workitem" =>
        \A k \in 1..Len(last.meeting.subject) :
            last.meeting.subject[k].id \in CandidateIds(last.candidates) =>
                /\ last.index # 0
                /\ last.candidates[last.index].id = last.meeting.subject[k].id

\* C18: the result is one of the candidates or none; when some pattern's
\* first capture is the id of a candidate, the first such capture in
\* pattern order names the result, whatever the similarities and the
\* assignees are; otherwise a candidate whose similarity reaches
\* min_similarity makes the most similar candidate (the first of them in
\* candidate order) the result; only when neither holds is the result the
\* first candidate assigned to an attendee, or none
StrategiesInFixedOrder ==
    last.op = "match_meeting_to_workitem" =>
        LET m == last.meeting
            ws == last.candidates
            caps == captures(m.subject)
            hits == { k \in 1..Len(caps) : caps[k] \in CandidateIds(ws) }
            close == { k \in 1..Len(ws) : m.sim[ws[k].id] = BestScore(m, ws) }
            attending == { k \in 1..Len(ws) : ws[k].assigned_to \in m.attendees }
            Min(S) == CHOOSE k \in S : \A j \in S : k <= j
        IN  /\ last.index \in 0..Len(ws)
            /\ hits # {} => /\ last.index # 0
                            /\ ws[last.index].id = caps[Min(hits)]
            /\ hits = {} /\ BestScore(m, ws) >= min_similarity
                  => last.index = Min(close)
            /\ hits = {} /\ BestScore(m, ws) < min_similarity
                  => last.index = IF attending = {} THEN 0 ELSE Min(attending)

\* C18 witness: the id in the subject won against a closer title and
\* against the attendee's own work item
IdBeatSimilarityAndAttendee ==
    /\ last.op = "match_meeting_to_workitem"
    /\ Len(last.candidates) = 2
    /\ last.index # 0
    /\ last.candidates[last.index].id \in
          { last.meeting.subject[k].id : k \in 1..Len(last.meeting.subject) }
    /\ \E k \in 1..2 :
          /\ k # last.index
          /\ last.meeting.sim[last.candidates[k].id] >= min_similarity
          /\ last.candidates[k].assigned_to \in last.meeting.attendees
    /\ last.candidates[last.index].assigned_to \notin last.meeting.attendees
    /\ last.meeting.sim[last.candidates[last.index].id] = 0

\* ------------------------------------------- batch matcher called directly
\* the meetings a batch is made of, cancelled ones among them
BatchMeetings ==
    { Meeting(subject, sim, att, 1, cancelled) :
        subject \in {<<>>, <<[pattern |-> "#", id |-> 1]>>},
        sim \in { f \in [Ids -> Scores] : f[1] = 0 /\ f[2] # 5 },
        att \in SUBSET {"ana"}, cancelled \in BOOLEAN }

\* a list of meetings, each with an id of its own
MeetingLists ==
    { [k \in 1..Len(ms) |-> [ms[k] EXCEPT !.id = k]] :
        ms \in UNION { [1..n -> BatchMeetings] : n \in 0..MaxMeetings } }

InitMatchBatch ==
    /\ Detached
    /\ store \in { st \in InitStores : \A i \in Ids : st[i].completed_work = 0 }
    /\ calendar = <<>>
    /\ dry_run = FALSE
    /\ conflict_strategy = "manual"
    /\ audit_log = <<>>
    /\ conflict_log = <<>>
    /\ execution_log = <<>>
    /\ last_run = 0
    /\ pc = "idle"
    /\ meetings \in MeetingLists
    /\ work_items \in CandidateLists
    /\ matched = <<>>
    /\ comparisons = <<>>
    /\ updates = <<>>
    /\ batch = NoBatch
    /\ result = NoCall
    /\ disturbances = 0
    /\ calls = 0
    /\ last = NoCall

\* a caller invokes MeetingMatcher.match_meetings_batch
CallMatchBatch ==
    /\ last.op = "none"
    /\ \E r \in {match_meetings_batch(meetings, work_items)} :
          last' = [op |-> "match_meetings_batch", meetings |-> meetings,
                   candidates |-> work_items, returned |-> r]
    /\ calls' = calls + 1
    /\ UNCHANGED <<store, config, components, audit_log, conflict_log, execution_log, last_run,
                   pc, locals, result, disturbances>>

NextMatchBatch == CallMatchBatch

SpecMatchBatch == InitMatchBatch /\ [][NextMatchBatch]_vars

\* C19: match_meetings_batch puts no cancelled meeting into matched or
\* unmatched, puts every other meeting into exactly one of them, pairs each
\* matched meeting with one of the work items, and its counters satisfy
\* matched_count + unmatched_count + cancelled = total_meetings
BatchMatchPartitions ==
    last.op = "match_meetings_batch" =>
        LET r == last.returned
            ms == last.meetings
            InMatched(k) ==
                Cardinality({ j \in 1..Len(r.matched) : r.matched[j].meeting = ms[k] })
            InUnmatched(k) ==
                Cardinality({ j \in 1..Len(r.unmatched) : r.unmatched[j] = ms[k] })
        IN  /\ \A k \in 1..Len(ms) :
                  InMatched(k) + InUnmatched(k) = IF ms[k].is_cancelled THEN 0 ELSE 1
            /\ \A j \in 1..Len(r.matched) :
                  /\ \E k \in 1..Len(ms) : r.matched[j].meeting = ms[k]
                  /\ \E k \in 1..Len(last.candidates) :
                        r.matched[j].work_item = last.candidates[k]
            /\ \A j \in 1..Len(r.unmatched) :
                  \E k \in 1..Len(ms) : r.unmatched[j] = ms[k]
            /\ r.matched_count = Len(r.matched)
            /\ r.unmatched_count = Len(r.unmatched)
            /\ r.total_meetings = Len(ms)
            /\ r.matched_count + r.unmatched_count
                  + Cardinality({ k \in 1..Len(ms) : ms[k].is_cancelled })
                  = r.total_meetings

\* C19 witness: a batch with a cancelled meeting whose subject carries the
\* id of a candidate, next to a meeting that was matched
CancelledMeetingPassedOver ==
    /\ last.op = "match_meetings_batch"
    /\ last.returned.matched_count = 1
    /\ \E k \in 1..Len(last.meetings) :
          /\ last.meetings[k].is_cancelled
          /\ match_meeting_to_workitem(last.meetings[k], last.candidates) # 0

\* --------------------------------------------- comparator called directly
Estimates == {-4, 0, 4, 20}
Actuals == {0, 2, 3, 4, 5, 6, 7, 18, 22, 23, 25, 26, 30, 31}

InitComparator ==
    /\ Detached
    /\ store \in { st \in InitStores : \A i \in Ids : st[i].completed_work = 0 }
    /\ calendar = <<>>
    /\ dry_run = FALSE
    /\ conflict_strategy = "manual"
    /\ Idle

\* a caller invokes TimeComparator.compare_times and keeps what it returns
CallCompare(estimated, actual) ==
    /\ calls < MaxCalls
    /\ comparisons' = Append(comparisons, compare_times(1, estimated, actual))
    /\ last' = [op |-> "compare_times"]
    /\ calls' = calls + 1
    /\ UNCHANGED <<store, config, components, audit_log, conflict_log, execution_log, last_run,
                   pc, meetings, work_items, matched, updates, batch, result,
                   disturbances>>

NextComparator ==
    \E estimated \in Estimates, actual \in Actuals : CallCompare(estimated, actual)

SpecComparator == InitComparator /\ [][NextComparator]_vars

\* the order of the deviation levels: none, light, moderate, high
LevelRank(level) ==
    CASE level = "none" -> 0
      [] level = "leve" -> 1
      [] level = "moderada" -> 2
      [] level = "alta" -> 3

\* C20: every comparison returned by compare_times carries the variance
\* (actual - estimated) / estimated x 100 and the level that
\* |variance_percentage| / 100 falls in, with inclusive upper bounds 0.10
\* (none), 0.25 (light, "leve"), 0.50 (moderate, "moderada"), high ("alta")
\* above; of two comparisons the one with the larger |variance_percentage|
\* never has the lower level; with estimated = 0 the variance is 0 and the
\* level none when actual = 0, and the variance is infinite and the level
\* high when actual > 0; is_acceptable is true exactly when the level is none
ComparisonsAreClassified ==
    last.op = "compare_times" =>
        /\ \A k \in 1..Len(comparisons) :
              LET c == comparisons[k]
                  v == c.variance_percentage
                  \* |variance_percentage| / 100 <= t / 100
                  AtMost(t) == v.den # 0 /\ 100 * Abs(v.num) <= 100 * t * v.den
              IN  /\ c.estimated_hours # 0 =>
                        /\ v.den > 0
                        /\ v.num * c.estimated_hours
                             = (c.actual_hours - c.estimated_hours) * 100 * v.den
                  /\ c.deviation_level = "none" <=> AtMost(10)
                  /\ c.deviation_level = "leve" <=> ~AtMost(10) /\ AtMost(25)
                  /\ c.deviation_level = "moderada" <=> ~AtMost(25) /\ AtMost(50)
                  /\ c.deviation_level = "alta" <=> ~AtMost(50)
                  /\ c.estimated_hours = 0 /\ c.actual_hours = 0 =>
                        v.num = 0 /\ v.den # 0 /\ c.deviation_level = "none"
                  /\ c.estimated_hours = 0 /\ c.actual_hours > 0 =>
                        v = Infinity /\ c.deviation_level = "alta"
                  /\ c.is_acceptable <=> c.deviation_level = "none"
        /\ \A j, k \in 1..Len(comparisons) :
              LET v == comparisons[j].variance_percentage
                  w == comparisons[k].variance_percentage
              IN  Abs(v.num) * w.den <= Abs(w.num) * v.den /\ (w.den = 0 \/ v.den # 0)
                    => LevelRank(comparisons[j].deviation_level)
                         <= LevelRank(comparisons[k].deviation_level)

\* C20 witness: a comparison exactly at the 10 % bound that is acceptable,
\* followed by one with no estimate and hours worked
ComparedAtBoundAndWithoutEstimate ==
    /\ last.op = "compare_times"
    /\ Len(comparisons) = 2
    /\ comparisons[1].estimated_hours = 20
    /\ comparisons[1].actual_hours = 22
    /\ comparisons[1].is_acceptable
    /\ comparisons[2].estimated_hours = 0
    /\ comparisons[2].actual_hours > 0
    /\ comparisons[2].deviation_level = "alta"

\* --------------------------------------------- normaliser called directly
\* raw events as the provider may return them: start and end in whole
\* hours, None for a missing or unparsable dateTime
RawEvents ==
    { [Event("r", <<>>, 0, {}, 0, FALSE) EXCEPT !.start = s, !.end = e] :
        s \in {None, 0, 1}, e \in {None, 0, 1, 2} }

RawLists == UNION { [1..n -> RawEvents] : n \in 0..MaxMeetings }

InitProcessor ==
    /\ Detached
    /\ store \in { st \in InitStores : \A i \in Ids : st[i].completed_work = 0 }
    /\ calendar \in RawLists
    /\ dry_run = FALSE
    /\ conflict_strategy = "manual"
    /\ Idle

\* a caller invokes MeetingProcessor.process_meetings on the raw events
CallProcess ==
    /\ last.op = "none"
    /\ meetings' = process_meetings(calendar)
    /\ last' = [op |-> "process_meetings", events |-> calendar]
    /\ calls' = calls + 1
    /\ UNCHANGED <<store, config, components, audit_log, conflict_log, execution_log, last_run,
                   pc, work_items, matched, comparisons, updates, batch, result,
                   disturbances>>

NextProcessor == CallProcess

SpecProcessor == InitProcessor /\ [][NextProcessor]_vars

\* a raw event with both times present and its end after its start
WellFormed(ev) == ev.start # None /\ ev.end # None /\ ev.end > ev.start

\* C21: every meeting returned by process_meetings has end > start and
\* duration_hours > 0, and the result is made of exactly the well-formed
\* events, in their order
NormalisedMeetingsArePositive ==
    last.op = "process_meetings" =>
        /\ \A k \in 1..Len(meetings) :
              /\ meetings[k].end_time > meetings[k].start_time
              /\ meetings[k].duration_hours > 0
        /\ Len(meetings) = Len(SelectSeq(last.events, WellFormed))

\* ------------------------------------------------------ HTTP Transport (A)
\* BaseAPIClient.__init__: max_retries
max_retries == 3

\* _create_session: Retry(status_forcelist=...)
status_forcelist == {429, 500, 502, 503, 504}

\* _create_session builds Retry without respect_retry_after_header, which
\* is then at its default, True: a response that carries a Retry-After
\* header is also retried when its status is one of these
RETRY_AFTER_STATUS_CODES == {413, 429, 503}

Statuses == {200, 401, 403, 404, 413} \cup status_forcelist

TransportErrors == {"timeout", "connection_error"}

\* what one attempt of session.request can end with
Outcomes ==
    [kind : {"response"}, status : Statuses, retry_after : BOOLEAN]
        \cup [kind : TransportErrors, status : {0}, retry_after : {FALSE}]

\* the retry strategy of the session, asked after an attempt with total
\* retries left: Retry.is_retry for a response (every method is in
\* allowed_methods), a retry for every transport error
is_retry(o, total) ==
    \/ o.kind \in TransportErrors
    \/ o.status \in status_forcelist
    \/ total # 0 /\ o.retry_after /\ o.status \in RETRY_AFTER_STATUS_CODES

\* what _make_request does once the session has its final outcome
surfaced(o, exhausted) ==
    IF exhausted THEN (IF o.kind = "response" THEN "RetryError" ELSE o.kind)
    ELSE IF o.kind = "response" /\ o.status < 400 THEN "response"
    ELSE "HTTPError"

InitTransport ==
    /\ Detached
    /\ store \in { st \in InitStores : \A i \in Ids : st[i].completed_work = 0 }
    /\ calendar = <<>>
    /\ dry_run = FALSE
    /\ conflict_strategy = "manual"
    /\ Idle

\* a caller invokes BaseAPIClient._make_request
MakeRequest ==
    /\ last.op = "none"
    /\ last' = [op |-> "_make_request", total |-> max_retries, history |-> <<>>,
                returned |-> "pending"]
    /\ calls' = calls + 1
    /\ UNCHANGED <<store, config, components, audit_log, conflict_log, execution_log, last_run,
                   pc, locals, result, disturbances>>

\* session.request sends the request once and the server or the network
\* answers with o; a retried attempt uses up one of the retries left, and
\* the request ends with an error when none is left
Attempt(o) ==
    /\ last.op = "_make_request"
    /\ last.returned = "pending"
    /\ last' = [last EXCEPT
                   !.history = Append(@, o),
                   !.total = IF is_retry(o, last.total) THEN @ - 1 ELSE @,
                   !.returned =
                       IF is_retry(o, last.total)
                       THEN (IF last.total = 0 THEN surfaced(o, TRUE) ELSE "pending")
                       ELSE surfaced(o, FALSE)]
    /\ UNCHANGED <<store, config, components, audit_log, conflict_log, execution_log, last_run,
                   pc, locals, result, disturbances, calls>>

NextTransport ==
    \/ MakeRequest
    \/ \E o \in Outcomes : Attempt(o)

SpecTransport == InitTransport /\ [][NextTransport]_vars

\* the attempts the specification allows to be followed by another one
Retryable(o) == o.kind \in TransportErrors \/ o.status \in status_forcelist

\* C22: a request is re-sent only after a response with status in
\* {429, 500, 502, 503, 504} or a transport error, at most max_retries
\* times; any other 4xx response is sent once and ends the request with an
\* error; the request ends after at most max_retries + 1 attempts, with a
\* response, with the error of its one non-retryable attempt, or with the
\* error of exhausted retries
ResentOnlyWhenRetryable ==
    last.op = "_make_request" =>
        LET h == last.history
        IN  /\ Len(h) <= max_retries + 1
            /\ \A k \in 1..(Len(h) - 1) : Retryable(h[k])
            /\ Len(h) = max_retries + 1 => last.returned # "pending"
            /\ \A k \in 1..Len(h) :
                  (h[k].kind = "response" /\ h[k].status \in (400..499) \ {429})
                      => (k = Len(h) /\ last.returned = "HTTPError")
            /\ last.returned = "response" =>
                  (h[Len(h)].kind = "response" /\ h[Len(h)].status < 400)
            /\ last.returned \in {"RetryError"} \cup TransportErrors =>
                  (Len(h) = max_retries + 1 /\ \A k \in 1..Len(h) : Retryable(h[k]))

\* ------------------------------------------------- Graph token provider
\* one tick of the clock is 100 seconds; the safety margin of
\* get_access_token, 300 seconds
margin == 3

\* result.get("expires_in", 3600)
default_expires_in == 36

\* what acquire_token_for_client answers: no access_token, or a token with
\* the given expires_in, or a token without expires_in
NoAnswer == [access_token |-> FALSE, expires_in |-> None]

Acquisitions ==
    {NoAnswer} \cup [access_token : {TRUE}, expires_in : {None, 2, 4, 6}]

expires_in(answer) ==
    IF answer.expires_in = None THEN default_expires_in ELSE answer.expires_in

\* a validity test that still accepts the token at its expiry
is_token_valid_inclusive(a, now) ==
    /\ a.access_token # None
    /\ a.token_expiry # None
    /\ now <= a.token_expiry

\* GraphAuthProvider._is_token_valid
is_token_valid(a, now) ==
    /\ a.access_token # None
    /\ a.token_expiry # None
    /\ now < a.token_expiry

InitAuth ==
    /\ Detached
    /\ store \in { st \in InitStores : \A i \in Ids : st[i].completed_work = 0 }
    /\ calendar = <<>>
    /\ dry_run = FALSE
    /\ conflict_strategy = "manual"
    /\ Idle

\* time passes
Tick ==
    /\ clock < MaxTime
    /\ clock' = clock + 1
    /\ UNCHANGED <<store, config, auth, graph, tracker, disk, audit_log, conflict_log,
                   execution_log, last_run, pc, locals, result, disturbances, direct>>

\* a caller invokes GraphAuthProvider.get_access_token; the authority
\* answers an acquisition with answer
GetAccessToken(force_refresh, answer) ==
    /\ calls < MaxCalls
    /\ calls' = calls + 1
    /\ IF ~force_refresh /\ is_token_valid(auth, clock)
       THEN /\ answer = NoAnswer
            /\ last' = [op |-> "get_access_token", force_refresh |-> force_refresh,
                        now |-> clock, before |-> auth, acquisitions |-> 0,
                        raised |-> FALSE, returned |-> auth.access_token]
            /\ UNCHANGED <<auth, disturbances>>
       ELSE IF ~answer.access_token
       THEN /\ disturbances < MaxDisturbances
            /\ disturbances' = disturbances + 1
            /\ last' = [op |-> "get_access_token", force_refresh |-> force_refresh,
                        now |-> clock, before |-> auth, acquisitions |-> 1,
                        raised |-> TRUE, returned |-> None]
            /\ UNCHANGED auth
       ELSE /\ auth' = [access_token |-> Len(auth.issued) + 1,
                        token_expiry |-> clock + expires_in(answer) - margin,
                        issued |-> Append(auth.issued,
                                     [at |-> clock, expires_in |-> expires_in(answer)])]
            /\ last' = [op |-> "get_access_token", force_refresh |-> force_refresh,
                        now |-> clock, before |-> auth, acquisitions |-> 1,
                        raised |-> FALSE, returned |-> Len(auth.issued) + 1]
            /\ UNCHANGED disturbances
    /\ UNCHANGED <<store, config, clock, graph, tracker, disk, audit_log, conflict_log,
                   execution_log, last_run, pc, locals, result>>

\* a caller invokes GraphAuthProvider.invalidate_token
InvalidateToken ==
    /\ auth.access_token # None
    /\ auth' = [auth EXCEPT !.access_token = None, !.token_expiry = None]
    /\ last' = [op |-> "invalidate_token"]
    /\ UNCHANGED <<store, config, clock, graph, tracker, disk, audit_log, conflict_log,
                   execution_log, last_run, pc, locals, result, disturbances, calls>>

NextAuth ==
    \/ Tick
    \/ \E force_refresh \in BOOLEAN, answer \in Acquisitions :
          GetAccessToken(force_refresh, answer)
    \/ InvalidateToken

SpecAuth == InitAuth /\ [][NextAuth]_vars

PagesOf(n) ==
    { g \in [1..n -> [has_value : BOOLEAN, value : {0, 1}, next : 0..n]] :
        \A k \in 1..n : ~g[k].has_value => g[k].value = 0 }

Graphs == UNION { PagesOf(n) : n \in 1..MaxPages }

\* data.get('value', [])
value_of(g, k) ==
    IF g[k].has_value /\ g[k].value = 1 THEN <<k>> ELSE <<>>

\* a traversal that stops at a page without events
next_link_unless_empty(g, k, paginate) ==
    IF paginate /\ value_of(g, k) # <<>> THEN g[k].next ELSE 0

\* data.get('@odata.nextLink') if paginate else None
next_link_of(g, k, paginate) ==
    IF paginate THEN g[k].next ELSE 0

InitTeams ==
    /\ clock = 0
    /\ auth = NoToken
    /\ graph \in Graphs
    /\ tracker = NoTracker
    /\ disk = NoDisk
    /\ store \in { st \in InitStores : \A i \in Ids : st[i].completed_work = 0 }
    /\ calendar = <<>>
    /\ dry_run = FALSE
    /\ conflict_strategy = "manual"
    /\ Idle

\* a caller invokes TeamsClient.get_calendar_events: events = [],
\* next_link = url
GetCalendarEvents(paginate) ==
    /\ last.op = "none"
    /\ last' = [op |-> "get_calendar_events", paginate |-> paginate,
                events |-> <<>>, next_link |-> 1, requests |-> 0,
                returned |-> FALSE]
    /\ calls' = calls + 1
    /\ UNCHANGED <<store, config, components, audit_log, conflict_log,
                   execution_log, last_run, pc, locals, result, disturbances>>

\* one turn of the while loop: the page behind next_link is requested and
\* its events are added; the call returns when there is no next link
FetchPage ==
    /\ last.op = "get_calendar_events"
    /\ ~last.returned
    /\ last.requests < MaxRequests
    /\ \E n \in {next_link_of(graph, last.next_link, last.paginate)} :
          last' = [last EXCEPT
                     !.events = @ \o value_of(graph, last.next_link),
                     !.requests = @ + 1,
                     !.next_link = n,
                     !.returned = (n = 0)]
    /\ UNCHANGED <<store, config, components, audit_log, conflict_log,
                   execution_log, last_run, pc, locals, result, disturbances, calls>>

NextTeams ==
    \/ \E paginate \in BOOLEAN : GetCalendarEvents(paginate)
    \/ FetchPage

\* the while loop of a call under way keeps running
SpecTeams == InitTeams /\ [][NextTeams]_vars /\ WF_vars(FetchPage)

RECURSIVE Walk(_, _, _)
\* the pages met by following the next links from page k, n pages at most
Walk(g, k, n) ==
    IF k = 0 \/ n = 0 THEN <<>> ELSE <<k>> \o Walk(g, g[k].next, n - 1)

\* the chain of next links that starts at the first page is finite
FiniteChain(g) == g[Walk(g, 1, Len(g))[Len(Walk(g, 1, Len(g)))]].next = 0

RECURSIVE EventsOf(_, _)
\* the value lists of the pages ks, concatenated in order
EventsOf(g, ks) ==
    IF ks = <<>> THEN <<>>
    ELSE (IF g[Head(ks)].has_value /\ g[Head(ks)].value = 1
          THEN <<Head(ks)>> ELSE <<>>) \o EventsOf(g, Tail(ks))

\* what a returned call must have collected
TraversalIsComplete ==
    last.op = "get_calendar_events" /\ last.returned =>
        IF last.paginate
        THEN /\ FiniteChain(graph)
             /\ last.requests = Len(Walk(graph, 1, Len(graph)))
             /\ last.events = EventsOf(graph, Walk(graph, 1, Len(graph)))
        ELSE /\ last.requests = 1
             /\ last.events = EventsOf(graph, <<1>>)

\* C24: with paginate the call returns the value lists of the pages on the
\* chain of next links from the first page, concatenated in page order,
\* having made one request per page; an empty page or a page without a
\* value field adds nothing and does not end the traversal; without
\* paginate one request is made; and the call returns whenever the chain
\* of next links is finite
PaginationFollowsEveryLink ==
    /\ []TraversalIsComplete
    /\ (last.op = "get_calendar_events" /\ (last.paginate => FiniteChain(graph)))
          ~> (last.op = "get_calendar_events" /\ last.returned)

\* C24 witness: a traversal that went past an empty page and a page
\* without a value field and collected the events of the page after them
TraversedPastEmptyPages ==
    /\ last.op = "get_calendar_events"
    /\ last.returned
    /\ last.paginate
    /\ last.requests = 3
    /\ Len(last.events) = 1
    /\ \E k \in 1..Len(graph) : graph[k].has_value /\ graph[k].value = 0 /\ graph[k].next # 0
    /\ \E k \in 1..Len(graph) : ~graph[k].has_value /\ graph[k].next # 0
    /\ graph[last.events[1]].next = 0

\* ------------------------------------------------ Manual Entry Store (J)
\* hours are in hundredths; NaN is float('nan'), for which every
\* comparison is false
NaN == 999999

\* the arguments add_entry is called with: two calls that pass every test
\* and calls that miss one of them
AddInputs ==
    { [work_item_id |-> 1, hours |-> 2400, description |-> "fix", user_id |-> "ana"],
      [work_item_id |-> 1, hours |-> NaN, description |-> "fix", user_id |-> "ana"],
      [work_item_id |-> 1, hours |-> 0, description |-> "fix", user_id |-> "ana"],
      [work_item_id |-> 1, hours |-> 2401, description |-> "fix", user_id |-> "ana"],
      [work_item_id |-> 0, hours |-> 2400, description |-> "fix", user_id |-> "ana"],
      [work_item_id |-> 1, hours |-> 2400, description |-> " ", user_id |-> "ana"],
      [work_item_id |-> 1, hours |-> 2400, description |-> "fix", user_id |-> ""] }

\* str.strip() on the texts above
strip(text) == IF text = " " THEN "" ELSE text

\* ManualTimeTracker.add_entry, the validation: the ValueError raised
add_entry_error(work_item_id, hours, description, user_id) ==
    IF hours # NaN /\ hours <= 0 THEN "Hours must be positive"
    ELSE IF hours # NaN /\ hours > 2400 THEN "Hours cannot exceed 24 per day"
    ELSE IF work_item_id = 0 \/ work_item_id <= 0 THEN "Invalid work item ID"
    ELSE IF description = "" \/ strip(description) = "" THEN "Description is required"
    ELSE IF user_id = "" \/ strip(user_id) = "" THEN "User ID is required"
    ELSE "none"

\* TimeEntry.__init__ as add_entry calls it: the id and created_at are
\* read from the clock
TimeEntry(work_item_id, hours, description, user_id, now) ==
    [entry_id |-> now, work_item_id |-> work_item_id, hours |-> hours,
     date |-> 1, description |-> strip(description), user_id |-> strip(user_id),
     created_at |-> now, synced |-> FALSE, synced_at |-> None]

\* the first entry with the id, 0 when there is none
IndexOfEntry(entries, entry_id) ==
    SelectFirst([k \in 1..Len(entries) |-> entries[k].entry_id = entry_id], 1)

\* list.remove of the entry at place k
RemoveAt(entries, k) ==
    [j \in 1..(Len(entries) - 1) |-> IF j < k THEN entries[j] ELSE entries[j + 1]]

\* _load_entries of a new tracker: the entries of a complete file, none
\* when there is no file; it raises on a file that is not whole
LoadRaises(file) == file.state = "partial"

Loaded(file) == file.rows

\* _save_entries up to open(storage_path, 'w'): the file is cut to nothing
\* and the dump is under way
StartSave(entries, resume) ==
    /\ tracker' = [tracker EXCEPT !.entries = entries, !.pc = "saving",
                                  !.resume = resume]
    /\ disk' = [disk EXCEPT !.storage = [state |-> "partial", rows |-> <<>>]]

InitTracker ==
    /\ Detached
    /\ store \in { st \in InitStores : \A i \in Ids : st[i].completed_work = 0 }
    /\ calendar = <<>>
    /\ dry_run = FALSE
    /\ conflict_strategy = "manual"
    /\ Idle

TrackerUnchanged ==
    UNCHANGED <<store, config, auth, graph, audit_log, conflict_log, execution_log,
                last_run, pc, locals, result, calls>>

\* a caller invokes ManualTimeTracker.add_entry
AddEntry(work_item_id, hours, description, user_id) ==
    /\ tracker.pc = "idle"
    /\ Len(tracker.entries) < MaxEntries
    /\ LET error == add_entry_error(work_item_id, hours, description, user_id)
       IN  /\ last' = [op |-> "add_entry", work_item_id |-> work_item_id,
                       hours |-> hours, description |-> description,
                       user_id |-> user_id, error |-> error,
                       before |-> [entries |-> tracker.entries, storage |-> disk.storage]]
           /\ IF error # "none"
              THEN UNCHANGED <<tracker, disk>>
              ELSE StartSave(Append(tracker.entries,
                       TimeEntry(work_item_id, hours, description, user_id, clock)),
                       "idle")
    /\ UNCHANGED <<clock, disturbances>>
    /\ TrackerUnchanged

\* a caller invokes ManualTimeTracker.mark_entry_synced
MarkEntrySynced(entry_id) ==
    /\ tracker.pc = "idle"
    /\ LET k == IndexOfEntry(tracker.entries, entry_id)
       IN  /\ last' = [op |-> "mark_entry_synced", entry_id |-> entry_id,
                       error |-> IF k = 0 THEN "Entry not found" ELSE "none",
                       before |-> [entries |-> tracker.entries, storage |-> disk.storage]]
           /\ IF k = 0
              THEN UNCHANGED <<tracker, disk>>
              ELSE StartSave([tracker.entries EXCEPT ![k].synced = TRUE,
                                                     ![k].synced_at = clock], "idle")
    /\ UNCHANGED <<clock, disturbances>>
    /\ TrackerUnchanged

\* a caller invokes ManualTimeTracker.delete_entry
DeleteEntry(entry_id) ==
    /\ tracker.pc = "idle"
    /\ LET k == IndexOfEntry(tracker.entries, entry_id)
       IN  /\ last' = [op |-> "delete_entry", entry_id |-> entry_id,
                       error |-> IF k = 0 THEN "Entry not found" ELSE "none",
                       before |-> [entries |-> tracker.entries, storage |-> disk.storage]]
           /\ IF k = 0
              THEN UNCHANGED <<tracker, disk>>
              ELSE StartSave(RemoveAt(tracker.entries, k), "idle")
    /\ UNCHANGED <<clock, disturbances>>
    /\ TrackerUnchanged

\* a caller invokes ManualTimeTracker.clear_synced_entries
ClearSyncedEntries ==
    /\ tracker.pc = "idle"
    /\ tracker.entries # <<>>
    /\ last' = [op |-> "clear_synced_entries", error |-> "none",
                before |-> [entries |-> tracker.entries, storage |-> disk.storage]]
    /\ StartSave(SelectSeq(tracker.entries, LAMBDA e : ~e.synced), "idle")
    /\ UNCHANGED <<clock, disturbances>>
    /\ TrackerUnchanged

\* _save_entries: json.dump has written the whole list and the call returns
FinishSave ==
    /\ tracker.pc = "saving"
    /\ tracker' = [tracker EXCEPT !.pc = tracker.resume, !.resume = "idle"]
    /\ disk' = [disk EXCEPT !.storage = [state |-> "complete", rows |-> tracker.entries]]
    /\ UNCHANGED <<clock, disturbances, last>>
    /\ TrackerUnchanged

\* _save_entries: the write fails half way and the error is raised; inside
\* import_from_csv the error is recorded for the row and the import goes on
FailSave ==
    /\ tracker.pc = "saving"
    /\ disturbances < MaxDisturbances
    /\ disturbances' = disturbances + 1
    /\ tracker' = [tracker EXCEPT !.pc = tracker.resume, !.resume = "idle"]
    /\ last' = [last EXCEPT !.error = "OSError"]
    /\ UNCHANGED <<clock, disk>>
    /\ TrackerUnchanged

\* a caller invokes ManualTimeTracker.export_to_csv without filters
ExportToCsv ==
    /\ tracker.pc = "idle"
    /\ tracker.entries # <<>>
    /\ disk.csv.state = "absent"
    /\ disk' = [disk EXCEPT !.csv = [state |-> "complete", rows |-> tracker.entries]]
    /\ last' = [op |-> "export_to_csv", error |-> "none",
                before |-> [entries |-> tracker.entries, storage |-> disk.storage]]
    /\ UNCHANGED <<clock, tracker, disturbances>>
    /\ TrackerUnchanged

\* a tracker is constructed on a path where no storage file exists
NewStore ==
    /\ tracker.pc = "idle"
    /\ last.op = "export_to_csv"
    /\ tracker' = NoTracker
    /\ disk' = [disk EXCEPT !.storage = NoFile]
    /\ last' = [op |-> "__init__", error |-> "none",
                before |-> [entries |-> <<>>, storage |-> NoFile]]
    /\ UNCHANGED <<clock, disturbances>>
    /\ TrackerUnchanged

\* a caller invokes ManualTimeTracker.import_from_csv on the exported file
ImportFromCsv ==
    /\ tracker.pc = "idle"
    /\ disk.csv.state = "complete"
    /\ last.op # "import_from_csv"
    /\ Len(tracker.entries) + Len(disk.csv.rows) <= MaxEntries
    /\ tracker' = [tracker EXCEPT !.pc = "importing", !.row = 1]
    /\ last' = [op |-> "import_from_csv", error |-> "none",
                before |-> [entries |-> tracker.entries, storage |-> disk.storage]]
    /\ UNCHANGED <<clock, disk, disturbances>>
    /\ TrackerUnchanged

\* import_from_csv, one turn of the loop over the rows: the five columns
\* are read from the row and passed to add_entry
ImportRow ==
    /\ tracker.pc = "importing"
    /\ tracker.row <= Len(disk.csv.rows)
    /\ LET row == disk.csv.rows[tracker.row]
           error == add_entry_error(row.work_item_id, row.hours, row.description,
                                    row.user_id)
       IN  IF error # "none"
           THEN /\ tracker' = [tracker EXCEPT !.row = @ + 1]
                /\ UNCHANGED disk
           ELSE /\ tracker' = [tracker EXCEPT
                       !.entries = Append(@, TimeEntry(row.work_item_id, row.hours,
                                              row.description, row.user_id, clock)),
                       !.pc = "saving", !.resume = "importing", !.row = @ + 1]
                /\ disk' = [disk EXCEPT !.storage = [state |-> "partial", rows |-> <<>>]]
    /\ UNCHANGED <<clock, disturbances, last>>
    /\ TrackerUnchanged

\* import_from_csv returns the imported entries
ImportReturn ==
    /\ tracker.pc = "importing"
    /\ tracker.row > Len(disk.csv.rows)
    /\ tracker' = [tracker EXCEPT !.pc = "idle", !.row = 0]
    /\ UNCHANGED <<clock, disk, disturbances, last>>
    /\ TrackerUnchanged

\* time passes while the store is in use
TrackerTick ==
    /\ clock < MaxTime
    /\ clock' = clock + 1
    /\ UNCHANGED <<tracker, disk, disturbances, last>>
    /\ TrackerUnchanged

\* the ids a caller may hold: those of the entries, and one of no entry
KnownIds == { tracker.entries[k].entry_id : k \in 1..Len(tracker.entries) } \cup {-1}

NextTracker ==
    \/ \E a \in AddInputs :
          AddEntry(a.work_item_id, a.hours, a.description, a.user_id)
    \/ \E entry_id \in KnownIds : MarkEntrySynced(entry_id)
    \/ \E entry_id \in KnownIds : DeleteEntry(entry_id)
    \/ ClearSyncedEntries
    \/ FinishSave
    \/ FailSave
    \/ TrackerTick

SpecTracker == InitTracker /\ [][NextTracker]_vars

\* the stores an export starts from: entries added at tick 0 or 1, some of
\* them marked synced at tick 1
StoredEntries ==
    { [TimeEntry(1, 2400, "fix", "ana", t) EXCEPT
          !.synced = synced, !.synced_at = IF synced THEN 1 ELSE None] :
        t \in {0, 1}, synced \in BOOLEAN }

StoredLists == UNION { [1..n -> StoredEntries] : n \in 1..MaxEntries }

InitCsv ==
    /\ clock = 1
    /\ auth = NoToken
    /\ graph = <<>>
    /\ tracker \in { [NoTracker EXCEPT !.entries = es] : es \in StoredLists }
    /\ disk = [NoDisk EXCEPT !.storage = [state |-> "complete", rows |-> tracker.entries]]
    /\ store \in { st \in InitStores : \A i \in Ids : st[i].completed_work = 0 }
    /\ calendar = <<>>
    /\ dry_run = FALSE
    /\ conflict_strategy = "manual"
    /\ Idle

NextCsv ==
    \/ ExportToCsv
    \/ NewStore
    \/ ImportFromCsv
    \/ ImportRow
    \/ ImportReturn
    \/ FinishSave
    \/ FailSave
    \/ TrackerTick

SpecCsv == InitCsv /\ [][NextCsv]_vars

\* the calls that change the entry list
Mutations == {"add_entry", "mark_entry_synced", "delete_entry",
              "clear_synced_entries", "import_from_csv"}

\* C25: at any point a new tracker loading the storage file finds a whole
\* list, and once a mutation has returned it finds exactly the entries
\* held in memory
SavesAreAtomic ==
    /\ ~LoadRaises(disk.storage)
    /\ (tracker.pc = "idle" /\ last.op \in Mutations /\ last.error = "none")
          => Loaded(disk.storage) = tracker.entries

\* the add_entry calls the specification accepts: hours in (0, 24], a
\* positive work item id, a description and a user id that are not blank
Acceptable(call) ==
    /\ call.hours # NaN
    /\ call.hours > 0
    /\ call.hours <= 2400
    /\ call.work_item_id > 0
    /\ call.description \notin {"", " "}
    /\ call.user_id \notin {"", " "}

\* C27: add_entry accepts exactly the calls with hours in (0, 24], a
\* positive work item id and a description and user id that are not blank;
\* a rejected add_entry, and a mark_entry_synced or delete_entry with an
\* unknown id, raises and leaves the entry list and the stored file as
\* they were
OnlyValidEntriesAreAccepted ==
    /\ last.op = "add_entry" =>
          /\ Acceptable(last) <=> last.error \in {"none", "OSError"}
          /\ ~Acceptable(last) =>
                /\ tracker.entries = last.before.entries
                /\ disk.storage = last.before.storage
    /\ (last.op \in {"mark_entry_synced", "delete_entry"}
          /\ IndexOfEntry(last.before.entries, last.entry_id) = 0) =>
          /\ last.error = "Entry not found"
          /\ tracker.entries = last.before.entries
          /\ disk.storage = last.before.storage

\* C30: the entries of a store have pairwise distinct entry_id values
EntryIdsAreDistinct ==
    \A j, k \in 1..Len(tracker.entries) :
        j # k => tracker.entries[j].entry_id # tracker.entries[k].entry_id

\* C26: importing the exported file into an empty store yields the
\* exported entries, entry for entry and field for field
CsvRoundTripKeepsEntries ==
    (/\ last.op = "import_from_csv"
     /\ last.before.entries = <<>>
     /\ last.before.storage = NoFile
     /\ last.error = "none"
     /\ tracker.pc = "idle")
        => tracker.entries = disk.csv.rows

\* ------------------------------------------- runs against mixed estimates
\* stores in which item 1 has an estimate of one or of two hours and item 2
\* one of two hours, so that one run meets a ratio of exactly 2.0, one in
\* (2.0, 2.5] and one above 2.5
BudgetItems ==
    [completed_work : {0, 1}, original_estimate : {1, 2},
     state : {"Active"}, perm : {TRUE}, assigned_to : {"ana", ""}]

BudgetStores ==
    { st \in [Ids -> BudgetItems] :
          /\ \A i \in Ids : st[i].assigned_to = Assignee(i)
          /\ st[2].original_estimate = 2 }

InitBudget ==
    /\ Detached
    /\ store \in BudgetStores
    /\ calendar \in Calendars
    /\ dry_run = FALSE
    /\ conflict_strategy \in Strategies
    /\ audit_log = <<>>
    /\ conflict_log = <<>>
    /\ execution_log = <<>>
    /\ last_run = 0
    /\ pc = "idle"
    /\ meetings = <<>>
    /\ work_items = <<>>
    /\ matched = <<>>
    /\ comparisons = <<>>
    /\ updates = <<>>
    /\ batch = NoBatch
    /\ result = NoCall
    /\ disturbances = 0
    /\ calls = 0
    /\ last = NoCall

SpecBudget == InitBudget /\ [][Next]_vars

\* the run under way, when update_batch has returned, and the runs logged
RunRecords ==
    { execution_log[k] : k \in 1..Len(execution_log) }
        \cup (IF pc = "report" THEN {result} ELSE {})

\* the PATCH requests sent so far by the run under way and by the logged runs
PatchesSent ==
    UNION { { r.patches[k] : k \in 1..Len(r.patches) } : r \in RunRecords }
        \cup (IF pc \in {"detect", "write"}
              THEN { result.patches[k] : k \in 1..Len(result.patches) }
              ELSE {})

\* the estimate of a work item; no party changes it
EstimateOf(id) == store[id].original_estimate

\* the Writer's results of a run for a work item
ItemsFor(r, id) ==
    { k \in 1..Len(r.items) : r.items[k].work_item_id = id }

\* C28: in a run no PATCH sets completed_work of a work item with a positive
\* estimate above 2.0 times the estimate, whatever the strategy: a proposed
\* value with ratio in (2.0, 2.5] raises no overbudget conflict at detection
\* yet is rejected by the Writer, and an overbudget item resolved with
\* override or add is rejected by the Writer and counted as failed
WritesStayWithinTwiceEstimate ==
    /\ \A p \in PatchesSent :
          EstimateOf(p.work_item_id) > 0 =>
              p.value <= 2 * EstimateOf(p.work_item_id)
    /\ \A r \in RunRecords :
          /\ \A k \in 1..Len(r.detections) :
                LET d == r.detections[k]
                    est == EstimateOf(d.work_item_id)
                IN  /\ (/\ est > 0
                         /\ d.proposed_hours > 2 * est
                         /\ 2 * d.proposed_hours <= 5 * est)
                            => "overbudget" \notin Range(d.conflicts)
                    /\ (est > 0 /\ d.queued /\ d.final_value > 2 * est)
                            => /\ ItemsFor(r, d.work_item_id) # {}
                               /\ \A j \in ItemsFor(r, d.work_item_id) :
                                     /\ ~r.items[j].success
                                     /\ ~r.items[j].updated
                                     /\ r.items[j].validation_errors # <<>>
          /\ r.failed = Cardinality({ j \in 1..Len(r.items) : ~r.items[j].success })

\* a run in which a ratio of 2.5 passed detection and was rejected by the
\* Writer, and an overbudget item resolved with override or add was
\* rejected too; both are counted as failed
OverbudgetResolvedAndRejected ==
    \E r \in RunRecords :
        /\ r.failed = 2
        /\ \E k \in 1..Len(r.detections) :
              LET d == r.detections[k]
              IN  /\ 2 * d.proposed_hours = 5 * EstimateOf(d.work_item_id)
                  /\ d.queued
                  /\ "overbudget" \notin Range(d.conflicts)
                  /\ \E j \in ItemsFor(r, d.work_item_id) :
                        "exceeds" \in Range(r.items[j].validation_errors)
        /\ \E k \in 1..Len(r.detections) :
              LET d == r.detections[k]
              IN  /\ "overbudget" \in Range(d.conflicts)
                  /\ d.action_taken \in {"override", "add"}
                  /\ d.queued
                  /\ \E j \in ItemsFor(r, d.work_item_id) :
                        "exceeds" \in Range(r.items[j].validation_errors)

\* C29: in every run the match step's matched_count and unmatched_count are
\* the lengths of its matched and unmatched lists, the summary's
\* matched_meetings and unmatched_meetings are those counts, and the update
\* step has successful + failed + skipped = number of comparisons
RunCountsAgreeWithLists ==
    \A k \in 1..Len(execution_log) :
        LET r == execution_log[k]
        IN  r.has_summary =>
                /\ r.matched_count = r.matched_len
                /\ r.unmatched_count = r.unmatched_len
                /\ r.successful + r.failed + r.skipped = Len(r.detections)

====
